---- MODULE Spec2Model ----
(***************************************************************************)
(* The face-lock state machine of src/face_lock.py (FaceLockSystem).       *)
(*                                                                         *)
(* Conventions of the model:                                               *)
(*   - Python's None is the empty tuple <<>>; an optional number n is      *)
(*     <<n>>, a box is <<x1, y1, x2, y2>>, a landmark set is a tuple of    *)
(*     five <<x, y>> points, a name is a non-empty tuple of characters.    *)
(*   - cosine distances and confidences are counted in hundredths          *)
(*     (0.54 is 54, 1.0 is 100).                                           *)
(*   - time.time() is read once per frame; the clock of the model is the   *)
(*     running frame counter.                                              *)
(***************************************************************************)
EXTENDS Integers, Sequences, FiniteSets, TLC

None == <<>>
Some(x) == <<x>>

(* ----------------------------- bounds -------------------------------- *)

MaxFrames == 3      \* frames fed to one session
MaxTimeout == 1     \* largest lock_timeout_frames a session is built with
MaxInterval == 3    \* largest recognition_interval a session is built with

(* ------------------------ FaceLockState modes ------------------------ *)

SEARCHING == "searching"
LOCKED == "locked"
LOST == "lost"

(* --------------------------- configuration --------------------------- *)

min_face_size == 60
min_face_area == min_face_size * min_face_size

\* (distance_threshold, min_lock_confidence): the constructor defaults and
\* the threshold the repository's own test builds the system with.
DefaultThresholds == <<54, 65>>
ThresholdConfigs == {DefaultThresholds, <<34, 65>>}

\* frame_bgr.shape[:2] = (H, W)
FrameShape == <<480, 640>>

(* ------------------------------ names -------------------------------- *)

Al == <<"A", "l">>
al == <<"a", "l">>
Bo == <<"B", "o">>
bO == <<"b", "O">>
Cy == <<"C", "y">>

\* Names a caller may pass to select_target.
Names == {al, bO, Cy}

\* sorted(self.db.keys()) of the databases a session may be built on.
DefaultDB == <<Al, Bo>>
DBs == {<<>>, <<Al>>, DefaultDB}

LowerChar(c) ==
  CASE c = "A" -> "a"
    [] c = "B" -> "b"
    [] c = "C" -> "c"
    [] c = "O" -> "o"
    [] OTHER -> c

\* str.lower()
Lower(name) == [i \in DOMAIN name |-> LowerChar(name[i])]

\* The constructor arguments a session is built with: the base
\* configuration and every configuration that differs from it in one
\* argument.
BaseConfig ==
  [db |-> DefaultDB, thresholds |-> DefaultThresholds,
   timeout |-> MaxTimeout, interval |-> MaxInterval]

Configs ==
  { c \in [db : DBs, thresholds : ThresholdConfigs,
           timeout : 0..MaxTimeout, interval : 1..MaxInterval] :
      Cardinality({f \in {"db", "thresholds", "timeout", "interval"} :
                     c[f] # BaseConfig[f]}) <= 1 }

(* --------------------------- state ----------------------------------- *)

VARIABLES
  db_names, distance_threshold, lock_timeout_frames, min_lock_confidence,
  recognition_interval,
  state, locked_identity, locked_bbox, locked_kps, lock_confidence,
  frames_since_detection, lock_acquired_time,
  history_logger, tracker, tracker_ok, frame_count,
  cached_kps, cached_confidence,
  ad_prev_kps, ad_blink_state, ad_blink_frames,
  result, call,
  recognized, ad_hist,
  md_prev_state, md_last_publish_time, md_now, md_call,
  twin,
  servo_angle, pwm_duty, esp_pc, esp_call,
  last_scene,
  ws_clients, ws_latest, ws_mqtt, ws_loop, ws_sent, ws_log

config == <<db_names, distance_threshold, lock_timeout_frames,
            min_lock_confidence, recognition_interval>>

lockstate == <<state, locked_identity, locked_bbox, locked_kps,
               lock_confidence, frames_since_detection, lock_acquired_time>>

vars == <<db_names, distance_threshold, lock_timeout_frames,
          min_lock_confidence, recognition_interval,
          state, locked_identity, locked_bbox, locked_kps, lock_confidence,
          frames_since_detection, lock_acquired_time,
          history_logger, tracker, tracker_ok, frame_count,
          cached_kps, cached_confidence,
          ad_prev_kps, ad_blink_state, ad_blink_frames,
          result, call,
          recognized, ad_hist,
          md_prev_state, md_last_publish_time, md_now, md_call,
          twin,
          servo_angle, pwm_duty, esp_pc, esp_call,
          last_scene,
          ws_clients, ws_latest, ws_mqtt, ws_loop, ws_sent, ws_log>>

\* The ActionDetector owned by the system.
advars == <<ad_prev_kps, ad_blink_state, ad_blink_frames>>

\* The MovementDetector and the clock it reads.
mdvars == <<md_prev_state, md_last_publish_time, md_now, md_call>>

\* The servo controller on the ESP8266: the Servo object, the position of
\* run() and the last message handled.
espvars == <<servo_angle, pwm_duty, esp_pc, esp_call>>

\* The WebSocket relay: connected_clients, latest_message, the MQTT
\* thread inside on_mqtt_message, the coroutines scheduled on the event
\* loop, what was sent on each socket, and a log of what happened.
relayvars == <<ws_clients, ws_latest, ws_mqtt, ws_loop, ws_sent, ws_log>>

\* The programs that share no state with the vision pipeline, and the
\* detector output a frame of a session was given.
elsewhere == <<espvars, last_scene, relayvars>>

\* What lies outside the FaceLockSystem session: the record of a direct
\* call of _recognize_face, the calls made on a detector of its own, the
\* MovementDetector, the second session of a replay, and the other
\* programs.
outside == <<recognized, ad_hist, mdvars, twin, elsewhere>>

(* ------------------------- inputs of a frame ------------------------- *)

\* Landmark sets: left eye, right eye, nose tip, left mouth, right mouth.
KpsA == << <<240, 140>>, <<280, 140>>, <<260, 165>>, <<245, 190>>, <<275, 190>> >>
KpsB == << <<255, 155>>, <<290, 155>>, <<272, 175>>, <<258, 195>>, <<286, 195>> >>
KpsC == << <<445, 150>>, <<495, 150>>, <<470, 180>>, <<450, 210>>, <<490, 210>> >>
KpsT == << <<20, 25>>, <<40, 25>>, <<30, 32>>, <<22, 42>>, <<38, 42>> >>
KpsW == << <<100, 330>>, <<200, 330>>, <<150, 350>>, <<110, 380>>, <<190, 380>> >>

\* Candidates the Haar detector may return (FaceKpsBox: x1, y1, x2, y2, kps).
FaceA == [x1 |-> 200, y1 |-> 100, x2 |-> 320, y2 |-> 220, kps |-> KpsA]
FaceB == [x1 |-> 220, y1 |-> 120, x2 |-> 320, y2 |-> 220, kps |-> KpsB]
FaceC == [x1 |-> 400, y1 |-> 100, x2 |-> 540, y2 |-> 240, kps |-> KpsC]
FaceTiny == [x1 |-> 10, y1 |-> 10, x2 |-> 50, y2 |-> 50, kps |-> KpsT]
FaceWide == [x1 |-> 0, y1 |-> 300, x2 |-> 300, y2 |-> 400, kps |-> KpsW]

\* Results of self.detector.detect(frame_bgr, max_faces=3).
Scenes ==
  { <<>>, <<FaceWide, FaceTiny>>, <<FaceTiny, FaceA>>, <<FaceB, FaceA>>,
    <<FaceA, FaceC>> }

\* Cosine distances of one embedding to the database entries, in hundredths.
Dists == {10, 35, 54, 55, 120}

\* The distance vectors of an embedding: every distance against a database
\* of one entry; against two entries a clear match of either, a match at
\* the lock-confidence boundary, a weak match, and no match.
DistVecs ==
  IF Len(db_names) = 2
  THEN { <<10, 55>>, <<55, 10>>, <<35, 120>>, <<54, 55>>, <<55, 55>> }
  ELSE [1..Len(db_names) -> Dists]

\* What self._tracker.update(frame_bgr) does: raise, or return (ok, roi)
\* with roi = (x, y, w, h).
TrackerOutcomes ==
  { [raises |-> TRUE,  ok |-> FALSE, roi |-> <<0, 0, 0, 0>>],
    [raises |-> FALSE, ok |-> FALSE, roi |-> <<0, 0, 0, 0>>],
    [raises |-> FALSE, ok |-> TRUE,  roi |-> <<210, 105, 120, 120>>],
    [raises |-> FALSE, ok |-> TRUE,  roi |-> <<0 - 20, 100, 120, 120>>],
    [raises |-> FALSE, ok |-> TRUE,  roi |-> <<300, 200, 5, 5>>],
    [raises |-> FALSE, ok |-> TRUE,  roi |-> <<700, 100, 120, 120>>] }

NoUpdate == [raises |-> FALSE, ok |-> FALSE, roi |-> <<0, 0, 0, 0>>]

Max(a, b) == IF a >= b THEN a ELSE b
Min(a, b) == IF a <= b THEN a ELSE b

(* --------------------------- tracker helpers ------------------------- *)

InitTrackerMut(m, bbox, init_ok) == m

\* _init_tracker: m is the system, bbox the confirmed box, init_ok whether
\* cv2's tracker.init returns without raising.
InitTracker(m, bbox, init_ok) ==
  LET x1 == bbox[1]
      y1 == bbox[2]
      w == bbox[3] - bbox[1]
      h == bbox[4] - bbox[2]
  IN IF w <= 0 \/ h <= 0
     THEN [m EXCEPT !.tracker_ok = FALSE]
     ELSE [m EXCEPT !.tracker = Some(<<x1, y1, w, h>>), !.tracker_ok = init_ok]

\* The box of _update_tracker once the tracker is known to be usable:
\* None when update raises or reports failure or the clipped box is
\* degenerate, else the box clipped to the frame.
ClippedBoxMut(trk) ==
  IF trk.raises \/ ~trk.ok THEN None
  ELSE LET x == trk.roi[1]
           y == trk.roi[2]
           w == trk.roi[3]
           h == trk.roi[4]
       IN <<Max(0, x), Max(0, y), Min(FrameShape[2], x + w), Min(FrameShape[1], y + h)>>

ClippedBox(trk) ==
  IF trk.raises THEN None
  ELSE IF ~trk.ok THEN None
  ELSE LET x == trk.roi[1]
           y == trk.roi[2]
           w == trk.roi[3]
           h == trk.roi[4]
           H == FrameShape[1]
           W == FrameShape[2]
           x1 == Max(0, x)
           y1 == Max(0, y)
           x2 == Min(W, x + w)
           y2 == Min(H, y + h)
       IN IF x2 - x1 < 10 \/ y2 - y1 < 10 THEN None ELSE <<x1, y1, x2, y2>>

\* _update_tracker: the pair (system, tracked box or None).
UpdateTracker(m, trk) ==
  IF m.tracker = None \/ ~m.tracker_ok
  THEN [m |-> m, bbox |-> None]
  ELSE LET b == ClippedBox(trk)
       IN IF b = None
          THEN [m |-> [m EXCEPT !.tracker_ok = FALSE], bbox |-> None]
          ELSE [m |-> m, bbox |-> b]

IsRecognitionFrameMut(st, fc) ==
  IF st = SEARCHING THEN TRUE ELSE (fc % recognition_interval) = 1 % recognition_interval

\* _is_recognition_frame, with the mode and the frame counter it reads.
IsRecognitionFrame(st, fc) ==
  IF st = SEARCHING THEN TRUE ELSE (fc % recognition_interval) = 0

(* --------------------------- noise filter ---------------------------- *)

Area(f) == (f.x2 - f.x1) * (f.y2 - f.y1)

IsValidFaceMut(face) ==
  LET w == face.x2 - face.x1
      h == face.y2 - face.y1
  IN w > 0 /\ h > 0 /\ w * h > min_face_area /\ 2 * w >= h /\ w <= 2 * h

\* _is_valid_face; w / h < 0.5 and w / h > 2.0 are written without division.
IsValidFace(face) ==
  LET w == face.x2 - face.x1
      h == face.y2 - face.y1
      area == w * h
  IN IF area < min_face_area THEN FALSE
     ELSE IF w <= 0 \/ h <= 0 THEN FALSE
     ELSE IF 2 * w < h \/ w > 2 * h THEN FALSE
     ELSE TRUE

ValidFaces(detected_faces) == SelectSeq(detected_faces, IsValidFace)

(* --------------------------- target selection ------------------------ *)

\* face_name.lower() not in [n.lower() for n in self.db_names]
InDatabase(face_name) ==
  \E i \in 1..Len(db_names) : Lower(db_names[i]) = Lower(face_name)

MatchCaseMut(face_name) == face_name

\* The loop of select_target: the first database name equal to face_name
\* up to case.
MatchCase(face_name) ==
  LET i == CHOOSE i \in 1..Len(db_names) :
             /\ Lower(db_names[i]) = Lower(face_name)
             /\ \A j \in 1..(i - 1) : Lower(db_names[j]) # Lower(face_name)
  IN db_names[i]

\* FaceHistoryLogger(face_name=...): the history file of one session, by
\* the name it is opened under.
NewLogger(face_name) == Some([face_name |-> Lower(face_name)])

\* FaceHistoryLogger.log_status, guarded by `if self.history_logger`: the
\* line appended to the file is kept as the status logged by the call.
LogStatus(m, message) ==
  IF m.history_logger = None THEN m
  ELSE [m EXCEPT !.call.status = message]

(* ------------------------------ recognition -------------------------- *)

Inf == 1000

AcceptsMut(dist) == dist < distance_threshold

\* dist <= self.distance_threshold
Accepts(dist) == dist <= distance_threshold

RECURSIVE BestMatchMut(_, _, _)
BestMatchMut(dists, i, best) ==
  IF i > Len(db_names) THEN best
  ELSE LET dist == dists[i]
       IN IF dist <= best.distance
          THEN BestMatchMut(dists, i + 1,
                 [identity |-> IF Accepts(dist) THEN db_names[i] ELSE None,
                  distance |-> dist,
                  confidence |-> Max(0, 100 - dist)])
          ELSE BestMatchMut(dists, i + 1, best)

RECURSIVE BestMatch(_, _, _)
\* The loop of _recognize_face over self.db_names, from entry i on.
BestMatch(dists, i, best) ==
  IF i > Len(db_names) THEN best
  ELSE LET dist == dists[i]
       IN IF dist < best.distance
          THEN BestMatch(dists, i + 1,
                 [identity |-> IF Accepts(dist) THEN db_names[i] ELSE None,
                  distance |-> dist,
                  confidence |-> Max(0, 100 - dist)])
          ELSE BestMatch(dists, i + 1, best)

RecognizeFaceMut(dists) ==
  BestMatch(dists, 1, [identity |-> None, distance |-> Inf, confidence |-> 0])

\* _recognize_face: dists[i] is the cosine distance of the embedding to
\* the i-th database entry.
RecognizeFace(dists) ==
  IF db_names = <<>>
  THEN [identity |-> None, distance |-> 100, confidence |-> 0]
  ELSE BestMatch(dists, 1, [identity |-> None, distance |-> Inf, confidence |-> 0])

(* --------------------------- candidate selection --------------------- *)

BBox(face) == <<face.x1, face.y1, face.x2, face.y2>>

\* max(valid_faces, key=area): the first face of the largest area.
LargestFace(faces) ==
  LET i == CHOOSE i \in 1..Len(faces) :
             /\ \A j \in 1..Len(faces) : Area(faces[j]) <= Area(faces[i])
             /\ \A j \in 1..(i - 1) : Area(faces[j]) < Area(faces[i])
  IN faces[i]

\* dist < locked_h * 0.75 on the box centres, squared and cleared of
\* fractions: centres are (x1 + x2) / 2, (y1 + y2) / 2.
NearLocked(face, bbox) ==
  LET dx == (face.x1 + face.x2) - (bbox[1] + bbox[3])
      dy == (face.y1 + face.y2) - (bbox[2] + bbox[4])
      locked_h == bbox[4] - bbox[2]
  IN locked_h > 0 /\ 4 * (dx * dx + dy * dy) < 9 * locked_h * locked_h

FacesToRecognizeMut(m, valid_faces) == valid_faces

\* faces_to_recognize of process_frame.
FacesToRecognize(m, valid_faces) ==
  IF m.state = LOCKED /\ m.locked_bbox # None
  THEN LET near == SelectSeq(valid_faces, LAMBDA f : NearLocked(f, m.locked_bbox))
       IN IF near = <<>> THEN <<LargestFace(valid_faces)>> ELSE near
  ELSE <<LargestFace(valid_faces)>>

FaceInfosMut(faces, dvecs) ==
  [i \in 1..Min(1, Len(faces)) |->
     LET r == RecognizeFace(dvecs[i])
     IN [bbox |-> BBox(faces[i]), kps |-> faces[i].kps,
         identity |-> r.identity, distance |-> r.distance,
         confidence |-> r.confidence]]

\* The recognition loop: one all_faces entry per selected face.
FaceInfos(faces, dvecs) ==
  [i \in 1..Len(faces) |->
     LET r == RecognizeFace(dvecs[i])
     IN [bbox |-> BBox(faces[i]), kps |-> faces[i].kps,
         identity |-> r.identity, distance |-> r.distance,
         confidence |-> r.confidence]]

\* target_face: the last selected face recognized as self.state.locked_identity.
TargetFace(m, infos) ==
  LET hits == {i \in 1..Len(infos) : infos[i].identity = m.locked_identity}
  IN IF hits = {} THEN None
     ELSE Some(infos[CHOOSE i \in hits : \A j \in hits : j <= i])

(* --------------------------- ActionDetector -------------------------- *)

\* Constructor defaults of ActionDetector; ratios in hundredths.
smile_threshold == 8
movement_threshold_px == 8
scale_change_threshold == 12
blink_threshold_frames == 2

\* The history of an ActionDetector after __init__. _prev_eye_opening,
\* _prev_mouth_height, _prev_nose_x and _prev_eye_distance are written
\* together with _prev_kps and are read back from it.
NewActionDetector == [prev_kps |-> None, blink_state |-> "open", blink_frames |-> 0]

Abs(x) == IF x < 0 THEN 0 - x ELSE x

\* An Action record: its type and its confidence in hundredths.
Action(action_type, confidence) ==
  [action_type |-> action_type, confidence |-> confidence]

\* The square of _compute_eye_distance.
EyeDistance2(kps) ==
  LET dx == kps[2][1] - kps[1][1]
      dy == kps[2][2] - kps[1][2]
  IN dx * dx + dy * dy

\* _compute_eye_opening(...) > 0.6: the opening is 1.0 when the eyes are
\* less than 1 px apart, else |dy| / distance, and |dy| / distance > 0.6
\* iff 16 dy^2 > 9 dx^2.
EyesOpen(kps) ==
  LET dx == kps[2][1] - kps[1][1]
      dy == kps[2][2] - kps[1][2]
  IN IF EyeDistance2(kps) < 1 THEN TRUE ELSE 16 * dy * dy > 9 * dx * dx

\* _compute_mouth_height
MouthHeight(kps) == Abs(kps[5][2] - kps[4][2])

DetectBlinkMut(ad, eyes_open) ==
  IF ~eyes_open /\ ad.blink_state = "open"
  THEN [ad |-> [ad EXCEPT !.blink_state = "closed", !.blink_frames = 0],
        actions |-> <<>>]
  ELSE [ad |-> ad, actions |-> <<>>]

\* _detect_blink: the detector after the call and the actions it returns.
DetectBlink(ad, eyes_open) ==
  IF eyes_open
  THEN IF ad.blink_state \in {"closing", "closed", "opening"}
       THEN IF ad.blink_state = "opening" /\ ad.blink_frames > blink_threshold_frames
            THEN [ad |-> [ad EXCEPT !.blink_state = "open", !.blink_frames = 0],
                  actions |-> <<Action("blink", 85)>>]
            ELSE IF ad.blink_state # "opening"
            THEN [ad |-> [ad EXCEPT !.blink_state = "opening", !.blink_frames = 1],
                  actions |-> <<>>]
            ELSE [ad |-> ad, actions |-> <<>>]
       ELSE [ad |-> [ad EXCEPT !.blink_state = "open", !.blink_frames = 0],
             actions |-> <<>>]
  ELSE [ad |->
          CASE ad.blink_state = "open" ->
                 [ad EXCEPT !.blink_state = "closing", !.blink_frames = 1]
            [] ad.blink_state = "closing" ->
                 IF ad.blink_frames + 1 >= blink_threshold_frames
                 THEN [ad EXCEPT !.blink_state = "closed", !.blink_frames = 0]
                 ELSE [ad EXCEPT !.blink_frames = @ + 1]
            [] ad.blink_state = "closed" -> [ad EXCEPT !.blink_frames = @ + 1]
            [] OTHER -> ad,
        actions |-> <<>>]

\* _detect_smile, guarded by `self._prev_mouth_height is not None`.
DetectSmile(ad, kps) ==
  IF ad.prev_kps = None THEN <<>>
  ELSE LET mouth_height == MouthHeight(kps)
           prev_mouth_height == MouthHeight(ad.prev_kps)
       IN IF prev_mouth_height <= 0 THEN <<>>
          ELSE IF 100 * mouth_height > (100 + smile_threshold) * prev_mouth_height
          THEN <<Action("smile",
                   Min(90, ((mouth_height - prev_mouth_height) * 10000)
                             \div (15 * prev_mouth_height)))>>
          ELSE <<>>

\* _detect_movement
DetectMovement(ad, kps) ==
  IF ad.prev_kps = None THEN <<>>
  ELSE LET delta_x == kps[3][1] - ad.prev_kps[3][1]
       IN IF Abs(delta_x) > movement_threshold_px
          THEN IF delta_x > 0
               THEN <<Action("move_right", Min(95, 5 * Abs(delta_x)))>>
               ELSE <<Action("move_left", Min(95, 5 * Abs(delta_x)))>>
          ELSE <<>>

\* floor(100 * sqrt(a / b)) for b > 0, clamped to lo..hi: the confidence
\* min(0.85, .) saturates outside that range.
Ratio100(a, b, lo, hi) ==
  CHOOSE k \in lo..hi :
    /\ k = lo \/ k * k * b <= 10000 * a
    /\ k = hi \/ (k + 1) * (k + 1) * b > 10000 * a

\* _detect_scale_change: the actions, and whether `1.0 / ratio` divides by
\* zero. ratio > 1.12 iff 10000 d^2 > 112^2 p^2 on the squared distances.
DetectScaleChange(ad, kps) ==
  IF ad.prev_kps = None \/ EyeDistance2(ad.prev_kps) <= 0
  THEN [actions |-> <<>>, raised |-> FALSE]
  ELSE LET d2 == EyeDistance2(kps)
           p2 == EyeDistance2(ad.prev_kps)
           up == 100 + scale_change_threshold
           down == 100 - scale_change_threshold
       IN IF 10000 * d2 > up * up * p2
          THEN [actions |-> <<Action("face_closer",
                    Min(85, ((Ratio100(d2, p2, 112, 113) - 100) * 100) \div 15))>>,
                raised |-> FALSE]
          ELSE IF 10000 * d2 < down * down * p2
          THEN IF d2 = 0
               THEN [actions |-> <<>>, raised |-> TRUE]
               ELSE [actions |-> <<Action("face_farther",
                         Min(85, ((100 - Ratio100(d2, p2, 86, 87)) * 100) \div 15))>>,
                     raised |-> FALSE]
          ELSE [actions |-> <<>>, raised |-> FALSE]

DetectMut(ad, kps) ==
  IF kps = None THEN [ad |-> ad, actions |-> <<>>, raised |-> FALSE]
  ELSE LET blink == DetectBlink(ad, EyesOpen(kps))
       IN [ad |-> [blink.ad EXCEPT
                     !.prev_kps = IF ad.prev_kps = None THEN kps ELSE @],
           actions |-> blink.actions \o DetectSmile(ad, kps)
                         \o DetectMovement(ad, kps)
                         \o DetectScaleChange(ad, kps).actions,
           raised |-> FALSE]

\* ActionDetector.detect(kps_5x2): the detector after the call, the actions
\* returned, and whether the call raised instead of returning. A set of
\* fewer than five points raises IndexError before any history is written;
\* a division by zero in _detect_scale_change raises after the blink
\* machine has stepped.
Detect(ad, kps) ==
  IF kps = None THEN [ad |-> ad, actions |-> <<>>, raised |-> FALSE]
  ELSE IF Len(kps) < 5 THEN [ad |-> ad, actions |-> <<>>, raised |-> TRUE]
  ELSE LET blink == DetectBlink(ad, EyesOpen(kps))
           scale == DetectScaleChange(ad, kps)
       IN IF scale.raised
          THEN [ad |-> blink.ad, actions |-> <<>>, raised |-> TRUE]
          ELSE [ad |-> [blink.ad EXCEPT !.prev_kps = kps],
                actions |-> blink.actions \o DetectSmile(ad, kps)
                              \o DetectMovement(ad, kps) \o scale.actions,
                raised |-> FALSE]

(* ----------------------- the system as one record -------------------- *)

\* The fields of FaceLockSystem and of its FaceLockState that the
\* operations read and write, with the result record under construction
\* and the record of the call being made.
Cur ==
  [state |-> state, locked_identity |-> locked_identity,
   locked_bbox |-> locked_bbox, locked_kps |-> locked_kps,
   lock_confidence |-> lock_confidence,
   frames_since_detection |-> frames_since_detection,
   lock_acquired_time |-> lock_acquired_time,
   history_logger |-> history_logger,
   tracker |-> tracker, tracker_ok |-> tracker_ok,
   cached_kps |-> cached_kps, cached_confidence |-> cached_confidence,
   ad_prev_kps |-> ad_prev_kps, ad_blink_state |-> ad_blink_state,
   ad_blink_frames |-> ad_blink_frames,
   result |-> result, call |-> call]

\* The call record: which operation ran last, with what argument and
\* return value, from which mode, what the frame did on its way (whether
\* it asked the tracker for an update and what the tracker answered,
\* whether it ran the detector) and the status line the call appended to
\* the history file.
Call(op, face_name, ret) ==
  [op |-> op, face_name |-> face_name, ret |-> ret, pre_state |-> state,
   fast_path |-> FALSE, tracker_update |-> NoUpdate,
   tracker_failed |-> FALSE, detector_called |-> FALSE,
   ad_calls |-> 0, faces |-> <<>>, dvecs |-> <<>>,
   status |-> "", notfound_run |-> 0, lock_detects |-> 0]

\* The record of a call made on system m. lock_detects, the number of
\* action detections since the lock was last acquired, is carried from
\* call to call.
CallOn(m, op, face_name, ret) ==
  [Call(op, face_name, ret) EXCEPT !.pre_state = m.state,
                                   !.lock_detects = m.call.lock_detects]

\* The result dictionary process_frame starts from.
InitialResult(m) ==
  [state |-> m.state, locked_identity |-> m.locked_identity,
   face_box |-> m.locked_bbox, face_kps |-> m.locked_kps,
   recognition_distance |-> None, lock_confidence |-> m.lock_confidence,
   actions |-> <<>>, time_locked_seconds |-> None, all_faces |-> <<>>]

\* No result record: the last call was not process_frame.
NoResult ==
  [state |-> SEARCHING, locked_identity |-> None, face_box |-> None,
   face_kps |-> None, recognition_distance |-> None, lock_confidence |-> 0,
   actions |-> <<>>, time_locked_seconds |-> None, all_faces |-> <<>>]

\* The ActionDetector of system m.
DetectorOf(m) ==
  [prev_kps |-> m.ad_prev_kps, blink_state |-> m.ad_blink_state,
   blink_frames |-> m.ad_blink_frames]

\* actions = self.action_detector.detect(kps); result["actions"] = actions.
\* The landmark sets of the Haar detector have five points and two
\* distinct eyes, so the call returns.
ActionDetect(m, kps) ==
  LET d == Detect(DetectorOf(m), kps)
  IN [m EXCEPT !.ad_prev_kps = d.ad.prev_kps,
               !.ad_blink_state = d.ad.blink_state,
               !.ad_blink_frames = d.ad.blink_frames,
               !.result.actions = d.actions,
               !.call.ad_calls = @ + 1,
               !.call.lock_detects = @ + 1]

(* ------------------------- process_frame branches -------------------- *)

TimedOut(n) == n > lock_timeout_frames

AcquireOKMut(confidence) == confidence > min_lock_confidence

AcquireOKAlways(confidence) == TRUE

\* confidence >= self.min_lock_confidence
AcquireOK(confidence) == confidence >= min_lock_confidence

TimeLockedMut(m, now) ==
  IF m.lock_acquired_time # None
  THEN IF now - m.lock_acquired_time[1] > 2
       THEN [m EXCEPT !.state = SEARCHING, !.result.state = SEARCHING]
       ELSE [m EXCEPT !.result.time_locked_seconds = Some(now - m.lock_acquired_time[1])]
  ELSE m

\* elapsed lock duration of the result record
TimeLocked(m, now) ==
  IF m.lock_acquired_time # None
  THEN [m EXCEPT !.result.time_locked_seconds = Some(now - m.lock_acquired_time[1])]
  ELSE m

FastPathMut(m, tracked_bbox, now) ==
  LET m1 == [m EXCEPT !.locked_bbox = tracked_bbox,
                      !.state = LOCKED,
                      !.result.state = LOCKED,
                      !.result.face_box = tracked_bbox,
                      !.result.face_kps = m.cached_kps,
                      !.result.lock_confidence = m.cached_confidence]
  IN TimeLocked(m1, now)

\* FAST PATH with a tracked box.
FastPath(m, tracked_bbox, now) ==
  LET m1 == [m EXCEPT !.locked_bbox = tracked_bbox,
                      !.state = LOCKED,
                      !.frames_since_detection = 0,
                      !.result.state = LOCKED,
                      !.result.face_box = tracked_bbox,
                      !.result.face_kps = m.cached_kps,
                      !.result.lock_confidence = m.cached_confidence]
      m2 == IF m1.cached_kps # None THEN ActionDetect(m1, m1.cached_kps) ELSE m1
  IN TimeLocked(m2, now)

NoFacesMut(m) ==
  LET m1 == [m EXCEPT !.frames_since_detection = @ + 1]
  IN IF m1.state = LOCKED
     THEN IF TimedOut(m1.frames_since_detection)
          THEN LogStatus([m1 EXCEPT !.state = SEARCHING, !.locked_bbox = None,
                                    !.locked_kps = None, !.tracker_ok = FALSE],
                         "Lock LOST (face disappeared)")
          ELSE [m1 EXCEPT !.state = LOST, !.locked_bbox = None,
                          !.locked_kps = None, !.result.state = LOST]
     ELSE m1

NoFacesStay(m) == [m EXCEPT !.frames_since_detection = @ + 1]

\* "No faces detected".
NoFaces(m) ==
  LET m1 == [m EXCEPT !.frames_since_detection = @ + 1]
  IN IF m1.state = LOCKED
     THEN IF TimedOut(m1.frames_since_detection)
          THEN LogStatus([m1 EXCEPT !.state = SEARCHING, !.locked_bbox = None,
                                    !.locked_kps = None, !.tracker_ok = FALSE],
                         "Lock LOST (face disappeared)")
          ELSE [m1 EXCEPT !.state = LOST, !.result.state = LOST]
     ELSE m1

\* "All faces were noise".
AllNoise(m) == [m EXCEPT !.frames_since_detection = @ + 1]

\* "State machine updates", target_face found: t is its all_faces entry.
TargetFound(m, t, now, init_ok) ==
  LET bbox == t.bbox
      m0 == [m EXCEPT !.result.recognition_distance = Some(t.distance)]
      stored == [m0 EXCEPT !.locked_bbox = bbox, !.locked_kps = t.kps,
                           !.lock_confidence = t.confidence,
                           !.cached_kps = t.kps,
                           !.cached_confidence = t.confidence]
  IN CASE m.state = SEARCHING ->
            IF AcquireOK(t.confidence)
            THEN LET a == InitTracker([stored EXCEPT !.state = LOCKED,
                                         !.lock_acquired_time = Some(now),
                                         !.call.lock_detects = 0],
                                      bbox, init_ok)
                 IN LogStatus([a EXCEPT !.result.state = LOCKED,
                                        !.result.face_box = bbox,
                                        !.result.face_kps = t.kps,
                                        !.result.lock_confidence = t.confidence],
                              "Lock ACQUIRED")
            ELSE m0
       [] m.state = LOCKED ->
            LET a == InitTracker(stored, bbox, init_ok)
                b == [a EXCEPT !.result.state = LOCKED,
                               !.result.face_box = bbox,
                               !.result.face_kps = t.kps,
                               !.result.lock_confidence = t.confidence]
            IN ActionDetect(b, t.kps)
       [] m.state = LOST ->
            IF AcquireOK(t.confidence)
            THEN LET a == InitTracker([stored EXCEPT !.state = LOCKED], bbox, init_ok)
                 IN LogStatus([a EXCEPT !.result.state = LOCKED,
                                        !.result.face_box = bbox,
                                        !.result.face_kps = t.kps],
                              "Lock RE-ACQUIRED")
            ELSE m0

\* "Target face NOT found".
TargetNotFound(m) ==
  IF m.state = LOCKED
  THEN LET m1 == [m EXCEPT !.frames_since_detection = @ + 1]
       IN IF TimedOut(m1.frames_since_detection)
          THEN LogStatus([m1 EXCEPT !.state = SEARCHING, !.locked_bbox = None,
                                    !.locked_kps = None, !.tracker_ok = FALSE],
                         "Lock LOST (target not found)")
          ELSE [m1 EXCEPT !.state = LOST, !.result.state = LOST]
  ELSE m

\* The faces the slow path recognizes in a scene (none when the detector
\* or the noise filter leaves none).
Selected(m, detected_faces) ==
  LET valid_faces == ValidFaces(detected_faces)
  IN IF valid_faces = <<>> THEN <<>> ELSE FacesToRecognize(m, valid_faces)

\* SLOW PATH: detection, filter, selection, recognition, state update.
SlowPath(m, now, detected_faces, dvecs, init_ok) ==
  LET m1 == [m EXCEPT !.call.detector_called = TRUE]
      valid_faces == ValidFaces(detected_faces)
  IN IF detected_faces = <<>> THEN NoFaces(m1)
     ELSE IF valid_faces = <<>> THEN AllNoise(m1)
     ELSE LET m2 == [m1 EXCEPT !.frames_since_detection = 0]
              infos == FaceInfos(FacesToRecognize(m2, valid_faces), dvecs)
              m3 == [m2 EXCEPT !.result.all_faces = infos]
              t == TargetFace(m3, infos)
              m4 == IF t # None
                    THEN TargetFound(m3, t[1], now, init_ok)
                    ELSE TargetNotFound(m3)
          IN IF m4.state \in {LOCKED, LOST} THEN TimeLocked(m4, now) ELSE m4

(* --------------------------- MovementDetector ------------------------ *)

MOVE_LEFT == "MOVE_LEFT"
MOVE_RIGHT == "MOVE_RIGHT"
CENTERED == "CENTERED"
NO_FACE == "NO_FACE"

\* pc_vision/config.py: the dead zone in hundredths of the frame width,
\* the publish interval in tenths of a second.
DEAD_ZONE_RATIO == 12
MIN_PUBLISH_INTERVAL == 5

\* time.time() when the session starts, in tenths of a second.
Epoch == 100

\* "Determine movement status": the status and the confidence. With
\* face_cx = (x1 + x2) / 2 and frame_cx = frame_width / 2, the offset
\* (face_cx - frame_cx) / frame_width is (x1 + x2 - frame_width) /
\* (2 * frame_width).
Movement(frame_result, frame_width) ==
  IF frame_result.state = "searching" \/ frame_result.face_box = None
  THEN [movement |-> NO_FACE, confidence |-> 0]
  ELSE LET offset2 == frame_result.face_box[1] + frame_result.face_box[3] - frame_width
       IN [movement |->
             IF 100 * Abs(offset2) <= 2 * DEAD_ZONE_RATIO * frame_width THEN CENTERED
             ELSE IF offset2 < 0 THEN MOVE_LEFT
             ELSE MOVE_RIGHT,
           confidence |-> frame_result.lock_confidence]

IntervalElapsedMut(md, now) == now - md.last_publish_time > MIN_PUBLISH_INTERVAL

\* interval_elapsed
IntervalElapsed(md, now) == now - md.last_publish_time >= MIN_PUBLISH_INTERVAL

\* MovementDetector.compute(frame_result, frame_width) at time now on the
\* detector md: the detector after the call, the status and confidence
\* computed, and the value returned (None, or the payload). _prev_state
\* is None or the status remembered.
Compute(md, frame_result, frame_width, now) ==
  LET mv == Movement(frame_result, frame_width)
      state_changed == Some(mv.movement) # md.prev_state
  IN IF ~state_changed /\ ~IntervalElapsed(md, now)
     THEN [md |-> md, movement |-> mv.movement, confidence |-> mv.confidence,
           ret |-> None]
     ELSE [md |-> [prev_state |-> Some(mv.movement), last_publish_time |-> now],
           movement |-> mv.movement, confidence |-> mv.confidence,
           ret |-> Some([status |-> mv.movement, confidence |-> mv.confidence,
                         timestamp |-> now \div 10])]

(* ------------------------- ESP8266 servo controller ------------------- *)

SERVO_MIN_ANGLE == 0
SERVO_MAX_ANGLE == 180
SERVO_CENTER == 90
SERVO_STEP == 5
DUTY_MIN == 40
DUTY_MAX == 115

\* Servo.angle_to_duty: int() of the linear interpolation.
AngleToDuty(angle) ==
  LET a == Max(SERVO_MIN_ANGLE, Min(SERVO_MAX_ANGLE, angle))
  IN (DUTY_MIN * 180 + (DUTY_MAX - DUTY_MIN) * a) \div 180

SetAngleMut(servo, angle) ==
  [angle |-> angle, duty |-> AngleToDuty(angle)]

\* Servo.set_angle
SetAngle(servo, angle) ==
  LET a == Max(SERVO_MIN_ANGLE, Min(SERVO_MAX_ANGLE, angle))
  IN [angle |-> a, duty |-> AngleToDuty(a)]

\* Servo.step_left, step_right and center
StepLeft(servo) == SetAngle(servo, servo.angle - SERVO_STEP)
StepRight(servo) == SetAngle(servo, servo.angle + SERVO_STEP)
Center(servo) == SetAngle(servo, SERVO_CENTER)

\* servo = Servo(...); servo.center()
NewServo == Center([angle |-> SERVO_CENTER, duty |-> 0])

\* MQTT payloads: text that is not JSON, JSON that is not an object, an
\* object without "status", and objects with a status.
EspStatuses == {MOVE_LEFT, MOVE_RIGHT, CENTERED, NO_FACE, "LOOK_UP", ""}

EspMessages ==
  { [json |-> "invalid", status |-> None],
    [json |-> "array", status |-> None],
    [json |-> "object", status |-> None] }
  \cup { [json |-> "object", status |-> Some(st)] : st \in EspStatuses }

\* on_message(topic, msg): the servo after the call and whether the call
\* raised. json.loads raises ValueError, which is caught; payload.get on a
\* value that is not an object raises AttributeError, which is not.
OnMessage(servo, msg) ==
  IF msg.json = "invalid" THEN [servo |-> servo, raised |-> FALSE]
  ELSE IF msg.json # "object" THEN [servo |-> servo, raised |-> TRUE]
  ELSE LET status == IF msg.status = None THEN "" ELSE msg.status[1]
       IN [servo |-> CASE status = MOVE_LEFT -> StepLeft(servo)
                       [] status = MOVE_RIGHT -> StepRight(servo)
                       [] status = CENTERED -> Center(servo)
                       [] OTHER -> servo,
           raised |-> FALSE]

(* --------------------------- WebSocket relay ------------------------- *)

MaxMessages == 2    \* MQTT messages delivered to the relay

\* The WebSocket clients that may connect, each once.
WsClients == {"w1", "w2"}

\* The log of a relay that has seen nothing: which clients have closed,
\* what latest_message was when each client connected (None also for a
\* client that has not connected), and the clients in connected_clients
\* when each MQTT message arrived.
NewRelayLog ==
  [gone |-> {}, seen |-> [c \in WsClients |-> None], present |-> <<>>]

(* ------------------------------- actions ----------------------------- *)

\* The state after FaceLockSystem.__init__.
Init ==
  /\ \E c \in Configs :
       /\ db_names = c.db
       /\ distance_threshold = c.thresholds[1]
       /\ min_lock_confidence = c.thresholds[2]
       /\ lock_timeout_frames = c.timeout
       /\ recognition_interval = c.interval
  /\ state = SEARCHING
  /\ locked_identity = None
  /\ locked_bbox = None
  /\ locked_kps = None
  /\ lock_confidence = 0
  /\ frames_since_detection = 0
  /\ lock_acquired_time = None
  /\ history_logger = None
  /\ tracker = None
  /\ tracker_ok = FALSE
  /\ frame_count = 0
  /\ cached_kps = None
  /\ cached_confidence = 0
  /\ ad_prev_kps = NewActionDetector.prev_kps
  /\ ad_blink_state = NewActionDetector.blink_state
  /\ ad_blink_frames = NewActionDetector.blink_frames
  /\ result = NoResult
  /\ call = [op |-> "init", face_name |-> None, ret |-> "None",
             pre_state |-> SEARCHING, fast_path |-> FALSE,
             tracker_update |-> NoUpdate,
             tracker_failed |-> FALSE, detector_called |-> FALSE,
             ad_calls |-> 0, faces |-> <<>>, dvecs |-> <<>>,
             status |-> "", notfound_run |-> 0, lock_detects |-> 0]
  /\ recognized = None
  /\ ad_hist = <<>>
  /\ md_prev_state = None
  /\ md_last_publish_time = 0
  /\ md_now = Epoch
  /\ md_call = None
  /\ twin = None
  /\ servo_angle = NewServo.angle
  /\ pwm_duty = NewServo.duty
  /\ esp_pc = "connecting"
  /\ esp_call = None
  /\ last_scene = None
  /\ ws_clients = {}
  /\ ws_latest = None
  /\ ws_mqtt = None
  /\ ws_loop = <<>>
  /\ ws_sent = [c \in WsClients |-> <<>>]
  /\ ws_log = NewRelayLog

\* The variables take the fields of the system record m.
Store(m) ==
  /\ state' = m.state
  /\ locked_identity' = m.locked_identity
  /\ locked_bbox' = m.locked_bbox
  /\ locked_kps' = m.locked_kps
  /\ lock_confidence' = m.lock_confidence
  /\ frames_since_detection' = m.frames_since_detection
  /\ lock_acquired_time' = m.lock_acquired_time
  /\ history_logger' = m.history_logger
  /\ tracker' = m.tracker
  /\ tracker_ok' = m.tracker_ok
  /\ cached_kps' = m.cached_kps
  /\ cached_confidence' = m.cached_confidence
  /\ ad_prev_kps' = m.ad_prev_kps
  /\ ad_blink_state' = m.ad_blink_state
  /\ ad_blink_frames' = m.ad_blink_frames
  /\ result' = m.result
  /\ call' = m.call

Assign(sys) == \E m \in {sys} : Store(m)

\* select_target(face_name) on system m.
Select(m, face_name) ==
  IF ~InDatabase(face_name)
  THEN [m EXCEPT !.call = CallOn(m, "select_target", face_name, "False"),
                 !.result = NoResult]
  ELSE LET m0 == [m EXCEPT !.call = CallOn(m, "select_target", face_name, "True"),
                           !.result = NoResult]
           m1 == [m0 EXCEPT !.locked_identity = MatchCase(face_name)]
           m2 == [m1 EXCEPT !.history_logger = NewLogger(m1.locked_identity)]
       IN LogStatus(m2, "Target face selected")

ReleaseMut(m) ==
  LET m0 == [m EXCEPT !.call = CallOn(m, "release_lock", None, "None"),
                      !.result = NoResult]
  IN IF m0.state \in {LOCKED, LOST}
     THEN LogStatus([m0 EXCEPT !.state = SEARCHING,
                               !.locked_bbox = None,
                               !.locked_kps = None,
                               !.lock_acquired_time = None],
                    "Lock RELEASED by user")
     ELSE m0

\* release_lock() on system m.
Release(m) ==
  LET m0 == [m EXCEPT !.call = CallOn(m, "release_lock", None, "None"),
                      !.result = NoResult]
  IN IF m0.state \in {LOCKED, LOST}
     THEN LogStatus([m0 EXCEPT !.state = SEARCHING,
                               !.locked_bbox = None,
                               !.locked_kps = None,
                               !.lock_acquired_time = None,
                               !.tracker_ok = FALSE,
                               !.tracker = None],
                    "Lock RELEASED by user")
     ELSE m0

\* select_target(face_name) of the session
SelectTarget(face_name) ==
  /\ Assign(Select(Cur, face_name))
  /\ UNCHANGED <<config, frame_count, outside>>

\* release_lock() of the session
ReleaseLock ==
  /\ Assign(Release(Cur))
  /\ UNCHANGED <<config, frame_count, outside>>

\* The run of consecutive not-found frames that began in `locked`, after
\* a frame that ended in system record m.
NotFoundRun(m) ==
  IF m.call.detector_called /\ m.result.recognition_distance = None
  THEN IF call.notfound_run > 0 THEN call.notfound_run + 1
       ELSE IF state = LOCKED THEN 1 ELSE 0
  ELSE 0

Finish(m) ==
  \E done \in {m} : Store([done EXCEPT !.call.notfound_run = NotFoundRun(done)])

\* The condition of the FAST PATH, on frame number fc.
TakesFastPath(m, fc) ==
  /\ m.state \in {LOCKED, LOST}
  /\ ~IsRecognitionFrame(m.state, fc)
  /\ m.tracker_ok

\* Whether cv2's tracker.init raises matters on the frames that find the
\* target only.
InitOutcomes(m, faces, dvecs) ==
  IF TargetFace(m, FaceInfos(faces, dvecs)) # None THEN BOOLEAN ELSE {TRUE}

\* process_frame(frame_bgr) on system m: fc is the frame's number, now the
\* wall-clock time it reads, and the frame is given by what the tracker
\* (trk), the detector (detected_faces), the embedder (dvecs, one distance
\* vector per selected face) and cv2's tracker.init (init_ok) make of it.
Frame(m, fc, now, trk, detected_faces, dvecs, init_ok) ==
  LET m0 == [m EXCEPT !.result = InitialResult(m),
                      !.call = CallOn(m, "process_frame", None, "result")]
      fast == TakesFastPath(m0, fc)
      u == IF fast
           THEN UpdateTracker([m0 EXCEPT !.call.fast_path = TRUE,
                                         !.call.tracker_update = trk], trk)
           ELSE [m |-> m0, bbox |-> None]
  IN IF fast /\ u.bbox # None
     THEN FastPath(u.m, u.bbox, now)
     ELSE LET m1 == IF fast
                    THEN [u.m EXCEPT !.tracker_ok = FALSE,
                                     !.call.tracker_failed = TRUE]
                    ELSE u.m
              faces == Selected(m1, detected_faces)
          IN SlowPath([m1 EXCEPT !.call.faces = faces,
                                 !.call.dvecs = SubSeq(dvecs, 1, Len(faces))],
                      now, detected_faces, dvecs, init_ok)

\* process_frame(frame_bgr) of the session; time.time() is the frame number.
ProcessFrame ==
  /\ frame_count < MaxFrames
  /\ frame_count' = frame_count + 1
  /\ UNCHANGED <<config, outside>>
  /\ \E m \in {Cur} :
       LET fc == frame_count + 1
           fast == TakesFastPath(m, fc)
       IN \E trk \in (IF fast THEN TrackerOutcomes ELSE {NoUpdate}) :
            IF fast /\ UpdateTracker(m, trk).bbox # None
            THEN Finish(Frame(m, fc, fc, trk, <<>>, <<>>, TRUE))
            ELSE \E detected_faces \in Scenes :
                   \E faces \in {Selected(m, detected_faces)} :
                     \E dvecs \in [1..Len(faces) -> DistVecs] :
                       \E init_ok \in InitOutcomes(m, faces, dvecs) :
                         Finish(Frame(m, fc, fc, trk, detected_faces, dvecs, init_ok))

Next ==
  \/ \E face_name \in Names : SelectTarget(face_name)
  \/ ProcessFrame
  \/ ReleaseLock

Spec == Init /\ [][Next]_vars

(* ------------------- _recognize_face called on its own ---------------- *)

\* Cosine distances an embedding may have to a database entry: 0, both
\* sides of either distance threshold, 1.0 and the largest distance 2.0.
RecDists == {0, 34, 35, 54, 55, 100, 200}

\* identity, distance, confidence = self._recognize_face(aligned)
Recognize ==
  /\ \E dists \in [1..Len(db_names) -> RecDists] :
       recognized' = Some([dists |-> dists, ret |-> RecognizeFace(dists)])
  /\ UNCHANGED <<config, lockstate, history_logger, tracker, tracker_ok,
                 frame_count, cached_kps, cached_confidence, advars,
                 result, call, ad_hist, mdvars, twin, elsewhere>>

SpecRecognize == Init /\ [][Recognize]_vars

\* A session built with the base configuration.
BaseSession ==
  /\ Init
  /\ db_names = BaseConfig.db
  /\ <<distance_threshold, min_lock_confidence>> = BaseConfig.thresholds
  /\ lock_timeout_frames = BaseConfig.timeout
  /\ recognition_interval = BaseConfig.interval

(* --------------------- a MovementDetector on its own ------------------ *)

MaxClock == 12      \* tenths of a second the detector is followed for

\* Frame results process_frame hands over: no lock (before and after a
\* lock), and a lock held or lost on a box left of, at and right of the
\* centre of the frame.
FrameResults ==
  {[state |-> SEARCHING, face_box |-> None, lock_confidence |-> c] : c \in {0, 90}}
  \cup {[state |-> st, face_box |-> BBox(f), lock_confidence |-> 90] :
          st \in {LOCKED, LOST}, f \in {FaceWide, FaceA, FaceC}}

\* The MovementDetector held in mdvars.
MDetector == [prev_state |-> md_prev_state, last_publish_time |-> md_last_publish_time]

\* payload = movement.compute(result, w), some tenths of a second after
\* the call before; the call is kept in md_call with the detector it was
\* made on.
ComputeCall ==
  /\ \E dt \in {1, 2, 5} :
       /\ md_now + dt <= Epoch + MaxClock
       /\ md_now' = md_now + dt
  /\ \E frame_result \in FrameResults :
       \E c \in {Compute(MDetector, frame_result, FrameShape[2], md_now')} :
         /\ md_prev_state' = c.md.prev_state
         /\ md_last_publish_time' = c.md.last_publish_time
         /\ md_call' = Some([frame_result |-> frame_result, pre |-> MDetector,
                             movement |-> c.movement, confidence |-> c.confidence,
                             ret |-> c.ret])
  /\ UNCHANGED <<config, lockstate, history_logger, tracker, tracker_ok,
                 frame_count, cached_kps, cached_confidence, advars,
                 result, call, recognized, ad_hist, twin, elsewhere>>

SpecMD == BaseSession /\ [][ComputeCall]_vars

(* --------------------- an ActionDetector on its own ------------------- *)

MaxDetects == 4     \* calls of detect on one detector

\* Landmark sets a caller may pass to detect: level eyes (opening 0), a
\* tilted face (opening 0.8), opening exactly 0.6, level eyes further
\* apart with the nose moved and the mouth tilted, both eyes on one point,
\* no landmarks, three points, six points.
KpsOpen == << <<240, 140>>, <<270, 180>>, <<255, 170>>, <<240, 195>>, <<265, 200>> >>
KpsEdge == << <<240, 140>>, <<280, 170>>, <<260, 165>>, <<245, 190>>, <<275, 190>> >>
KpsNear == << <<230, 140>>, <<290, 140>>, <<275, 165>>, <<245, 190>>, <<275, 196>> >>
KpsZero == << <<240, 140>>, <<240, 140>>, <<260, 165>>, <<245, 190>>, <<275, 190>> >>
Kps3 == << <<240, 140>>, <<280, 140>>, <<260, 165>> >>
Kps6 == KpsNear \o << <<260, 120>> >>

DetectInputs == {KpsA, KpsOpen, KpsEdge, KpsNear, KpsZero, None, Kps3, Kps6}

\* The ActionDetector held in advars.
Detector ==
  [prev_kps |-> ad_prev_kps, blink_state |-> ad_blink_state,
   blink_frames |-> ad_blink_frames]

\* actions = detector.detect(kps), with the call kept in ad_hist: the
\* argument, the detector before the call, and what the call did.
DetectCall ==
  /\ Len(ad_hist) < MaxDetects
  /\ \E kps \in DetectInputs :
       \E d \in {Detect(Detector, kps)} :
         /\ ad_prev_kps' = d.ad.prev_kps
         /\ ad_blink_state' = d.ad.blink_state
         /\ ad_blink_frames' = d.ad.blink_frames
         /\ ad_hist' = Append(ad_hist,
                          [kps |-> kps, pre |-> Detector,
                           actions |-> d.actions, raised |-> d.raised])
  /\ UNCHANGED <<config, lockstate, history_logger, tracker, tracker_ok,
                 frame_count, cached_kps, cached_confidence,
                 result, call, recognized, mdvars, twin, elsewhere>>

SpecAD == BaseSession /\ [][DetectCall]_vars

(* ------------- an ActionDetector on frames at the thresholds ---------- *)

MaxMeasures == 2    \* calls of detect on one detector

\* A landmark set with level eyes d px apart, the nose tip at x and the
\* mouth corners h px apart vertically.
Landmarks(d, x, h) ==
  << <<240, 140>>, <<240 + d, 140>>, <<x, 165>>, <<245, 190>>, <<275, 190 + h>> >>

\* Frames around one base frame: eye distances in the ratios 0.88 and 1.12
\* and beyond (22, 25, 28) and 0; nose positions 8, 9 and 20 px apart;
\* mouth spans in the ratio 1.08 (25, 27), beyond it, and 0; and a frame
\* that differs from the base frame in all three with both eyes on one
\* point.
MeasureInputs ==
  { Landmarks(d, 260, 25) : d \in {0, 22, 25, 28} }
    \cup { Landmarks(25, x, 25) : x \in {252, 260, 268, 269, 280} }
    \cup { Landmarks(25, 260, h) : h \in {0, 25, 27, 28, 30} }
    \cup { Landmarks(0, 280, 30) }

\* actions = detector.detect(kps) on a frame of MeasureInputs, with the
\* call kept in ad_hist.
MeasureCall ==
  /\ Len(ad_hist) < MaxMeasures
  /\ \E kps \in MeasureInputs :
       \E d \in {Detect(Detector, kps)} :
         /\ ad_prev_kps' = d.ad.prev_kps
         /\ ad_blink_state' = d.ad.blink_state
         /\ ad_blink_frames' = d.ad.blink_frames
         /\ ad_hist' = Append(ad_hist,
                          [kps |-> kps, pre |-> Detector,
                           actions |-> d.actions, raised |-> d.raised])
  /\ UNCHANGED <<config, lockstate, history_logger, tracker, tracker_ok,
                 frame_count, cached_kps, cached_confidence,
                 result, call, recognized, mdvars, twin, elsewhere>>

SpecMeasure == BaseSession /\ [][MeasureCall]_vars

(* ------------------------- recorded sessions -------------------------- *)

MaxSessionFrames == 4   \* frames of one recorded session

\* The frame outcomes of a recording: what the detector, the tracker, the
\* embedder and cv2's tracker.init make of a recorded frame.
ReplayScenes == {<<>>, <<FaceB, FaceA>>, <<FaceA, FaceC>>}

ReplayTrackerOutcomes ==
  { [raises |-> FALSE, ok |-> FALSE, roi |-> <<0, 0, 0, 0>>],
    [raises |-> FALSE, ok |-> TRUE,  roi |-> <<210, 105, 120, 120>>] }

ReplayDistVecs == {<<10, 55>>, <<55, 10>>, <<55, 55>>}

\* Names selected in a recording: one of the database, one unknown.
ReplayNames == {al, Cy}

\* The outcomes of a recorded frame as system m meets it as frame fc: one
\* distance vector per face m selects.
Outcomes(m, fc) ==
  LET fast == TakesFastPath(m, fc)
  IN { o \in [trk : IF fast THEN ReplayTrackerOutcomes ELSE {NoUpdate},
              detected_faces : ReplayScenes,
              dvecs : UNION {[1..n -> ReplayDistVecs] : n \in 0..2},
              init_ok : BOOLEAN] :
         /\ Len(o.dvecs) = Len(Selected(m, o.detected_faces))
         /\ o.init_ok \in InitOutcomes(m, Selected(m, o.detected_faces), o.dvecs) }

\* process_frame of a recorded session
SessionFrame ==
  /\ frame_count < MaxSessionFrames
  /\ frame_count' = frame_count + 1
  /\ UNCHANGED <<config, outside>>
  /\ \E m \in {Cur} :
       \E o \in Outcomes(m, frame_count + 1) :
         Assign(Frame(m, frame_count + 1, frame_count + 1, o.trk,
                      o.detected_faces, o.dvecs, o.init_ok))

SessionNext ==
  \/ \E face_name \in ReplayNames : SelectTarget(face_name)
  \/ SessionFrame
  \/ ReleaseLock

SpecSession == BaseSession /\ [][SessionNext]_vars

(* ----------------------- sessions that keep a lock ------------------- *)

MaxTrackFrames == 5     \* frames of a session that tracks its target

\* A session built with the base configuration and a recognition interval
\* of two frames or more.
TrackSession ==
  /\ Init
  /\ db_names = BaseConfig.db
  /\ <<distance_threshold, min_lock_confidence>> = BaseConfig.thresholds
  /\ lock_timeout_frames = BaseConfig.timeout
  /\ recognition_interval >= 2

\* process_frame of a session that tracks its target
TrackFrame ==
  /\ frame_count < MaxTrackFrames
  /\ frame_count' = frame_count + 1
  /\ UNCHANGED <<config, outside>>
  /\ \E m \in {Cur} :
       \E o \in Outcomes(m, frame_count + 1) :
         Assign(Frame(m, frame_count + 1, frame_count + 1, o.trk,
                      o.detected_faces, o.dvecs, o.init_ok))

TrackNext == SelectTarget(al) \/ TrackFrame

SpecTrack == TrackSession /\ [][TrackNext]_vars

(* ------------------------ two sessions, one replay -------------------- *)

\* Seconds between two frames of the second session.
ClockSteps == {1, 2}

\* The second session is built, with the same configuration, at another
\* wall-clock time.
NewTwin ==
  /\ twin = None
  /\ twin' = Some([sys |-> Cur, clock |-> 7])
  /\ UNCHANGED <<config, lockstate, history_logger, tracker, tracker_ok,
                 frame_count, cached_kps, cached_confidence, advars,
                 result, call, recognized, ad_hist, mdvars, elsewhere>>

\* select_target(face_name) on both sessions
ReplaySelect(face_name) ==
  /\ twin # None
  /\ Assign(Select(Cur, face_name))
  /\ twin' = Some([twin[1] EXCEPT !.sys = Select(@, face_name)])
  /\ UNCHANGED <<config, frame_count, recognized, ad_hist, mdvars, elsewhere>>

\* release_lock() on both sessions
ReplayRelease ==
  /\ twin # None
  /\ Assign(Release(Cur))
  /\ twin' = Some([twin[1] EXCEPT !.sys = Release(@)])
  /\ UNCHANGED <<config, frame_count, recognized, ad_hist, mdvars, elsewhere>>

\* process_frame on both sessions, of a frame with the same outcomes: the
\* first session reads the frame number as its time, the second its own
\* clock.
ReplayFrame ==
  /\ twin # None
  /\ frame_count < MaxFrames
  /\ frame_count' = frame_count + 1
  /\ UNCHANGED <<config, recognized, ad_hist, mdvars, elsewhere>>
  /\ \E m \in {Cur} :
       \E o \in Outcomes(m, frame_count + 1), step \in ClockSteps :
         LET fc == frame_count + 1
             now == twin[1].clock + step
         IN /\ Assign(Frame(m, fc, fc, o.trk, o.detected_faces, o.dvecs, o.init_ok))
            /\ twin' = Some([sys |-> Frame(twin[1].sys, fc, now, o.trk,
                                           o.detected_faces, o.dvecs, o.init_ok),
                             clock |-> now])

ReplayNext ==
  \/ NewTwin
  \/ \E face_name \in ReplayNames : ReplaySelect(face_name)
  \/ ReplayFrame
  \/ ReplayRelease

SpecReplay == BaseSession /\ [][ReplayNext]_vars

(* ---------------------- the servo controller running ------------------ *)

\* The Servo object of the module.
ServoNow == [angle |-> servo_angle, duty |-> pwm_duty]

\* client.connect(); client.subscribe(MQTT_TOPIC), or the retry after a
\* failure.
EspConnect ==
  /\ esp_pc = "connecting"
  /\ \E ok \in BOOLEAN : esp_pc' = IF ok THEN "listening" ELSE "connecting"
  /\ UNCHANGED <<servo_angle, pwm_duty, esp_call>>

\* client.check_msg() delivering one message to on_message; an exception
\* leaving on_message ends the message loop and run() reconnects.
EspCheckMsg ==
  /\ esp_pc = "listening"
  /\ \E msg \in EspMessages :
       \E r \in {OnMessage(ServoNow, msg)} :
         /\ servo_angle' = r.servo.angle
         /\ pwm_duty' = r.servo.duty
         /\ esp_pc' = IF r.raised THEN "connecting" ELSE "listening"
         /\ esp_call' = Some([msg |-> msg, pre_angle |-> servo_angle,
                              raised |-> r.raised])

\* client.check_msg() raising on a network error
EspNetError ==
  /\ esp_pc = "listening"
  /\ esp_pc' = "connecting"
  /\ UNCHANGED <<servo_angle, pwm_duty, esp_call>>

\* KeyboardInterrupt in the message loop: servo.stop(), disconnect, return.
EspInterrupt ==
  /\ esp_pc = "listening"
  /\ esp_pc' = "stopped"
  /\ pwm_duty' = 0
  /\ UNCHANGED <<servo_angle, esp_call>>

EspNext ==
  /\ \/ EspConnect
     \/ EspCheckMsg
     \/ EspNetError
     \/ EspInterrupt
  /\ UNCHANGED <<config, lockstate, history_logger, tracker, tracker_ok,
                 frame_count, cached_kps, cached_confidence, advars,
                 result, call, recognized, ad_hist, mdvars, twin,
                 last_scene, relayvars>>

SpecEsp == BaseSession /\ [][EspNext]_vars

(* ------------------------ the relay running -------------------------- *)

\* ws_handler up to its first await in the message loop: the client is
\* added and, when a message is cached, sent the cached message. No other
\* coroutine runs in between; the MQTT thread may.
WsConnect(c) ==
  /\ c \notin ws_clients /\ c \notin ws_log.gone
  /\ ws_log.seen[c] = None /\ ws_sent[c] = <<>>
  /\ ws_clients' = ws_clients \cup {c}
  /\ ws_sent' = IF ws_latest # None
                THEN [ws_sent EXCEPT ![c] = Append(@, ws_latest[1])]
                ELSE ws_sent
  /\ ws_log' = [ws_log EXCEPT !.seen[c] = ws_latest]
  /\ UNCHANGED <<ws_latest, ws_mqtt, ws_loop>>

\* The client closes its connection: the `finally` of ws_handler.
WsDisconnect(c) ==
  /\ c \in ws_clients
  /\ ws_clients' = ws_clients \ {c}
  /\ ws_log' = [ws_log EXCEPT !.gone = @ \cup {c}]
  /\ UNCHANGED <<ws_latest, ws_mqtt, ws_loop, ws_sent>>

\* on_mqtt_message in the MQTT thread, up to `latest_message = payload`.
\* Messages are numbered in the order they arrive.
MqttMessage ==
  /\ ws_mqtt = None
  /\ Len(ws_log.present) < MaxMessages
  /\ LET payload == Len(ws_log.present) + 1
     IN /\ ws_latest' = Some(payload)
        /\ ws_mqtt' = Some(payload)
        /\ ws_log' = [ws_log EXCEPT !.present = Append(@, ws_clients)]
  /\ UNCHANGED <<ws_clients, ws_loop, ws_sent>>

\* asyncio.run_coroutine_threadsafe(broadcast(payload), loop): the
\* coroutine is queued on the event loop.
MqttSchedule ==
  /\ ws_mqtt # None
  /\ ws_loop' = Append(ws_loop, ws_mqtt[1])
  /\ ws_mqtt' = None
  /\ UNCHANGED <<ws_clients, ws_latest, ws_sent, ws_log>>

\* The event loop runs the oldest queued broadcast(message): the message
\* is sent to every client in connected_clients.
Broadcast ==
  /\ ws_loop # <<>>
  /\ ws_sent' = [c \in WsClients |->
                   IF c \in ws_clients THEN Append(ws_sent[c], Head(ws_loop))
                   ELSE ws_sent[c]]
  /\ ws_loop' = Tail(ws_loop)
  /\ UNCHANGED <<ws_clients, ws_latest, ws_mqtt, ws_log>>

RelayNext ==
  /\ \/ \E c \in WsClients : WsConnect(c)
     \/ \E c \in WsClients : WsDisconnect(c)
     \/ MqttMessage
     \/ MqttSchedule
     \/ Broadcast
  /\ UNCHANGED <<config, lockstate, history_logger, tracker, tracker_ok,
                 frame_count, cached_kps, cached_confidence, advars,
                 result, call, recognized, ad_hist, mdvars, twin,
                 espvars, last_scene>>

SpecRelay == BaseSession /\ [][RelayNext]_vars

(* -------------------- sessions on scenes at the limits ---------------- *)

MaxSceneFrames == 3   \* frames of one session on these scenes

\* A detector candidate with landmarks placed inside its box.
EdgeFace(x1, y1, x2, y2) ==
  LET w == x2 - x1
      h == y2 - y1
  IN [x1 |-> x1, y1 |-> y1, x2 |-> x2, y2 |-> y2,
      kps |-> << <<x1 + w \div 3, y1 + h \div 3>>,
                 <<x2 - w \div 3, y1 + h \div 3>>,
                 <<x1 + w \div 2, y1 + h \div 2>>,
                 <<x1 + w \div 3, y2 - h \div 4>>,
                 <<x2 - w \div 3, y2 - h \div 4>> >>]

\* Candidates whose centre is at, just inside and just outside
\* 0.75 x the height of FaceA's box from the centre of FaceA's box.
FaceEdge == EdgeFace(290, 100, 410, 220)
FaceIn == EdgeFace(289, 100, 409, 220)
FaceOut == EdgeFace(291, 100, 411, 220)

\* Candidates at and just beyond the limits of _is_valid_face: area
\* min_face_size^2 and one less, width / height 0.5 and 2.0 and just
\* outside.
Face60 == EdgeFace(230, 130, 290, 190)
Face59 == EdgeFace(230, 130, 289, 191)
FaceHalf == EdgeFace(230, 100, 290, 220)
FaceUnderHalf == EdgeFace(230, 100, 290, 221)
FaceDouble == EdgeFace(200, 130, 320, 190)
FaceOverDouble == EdgeFace(200, 130, 321, 190)

\* Results of self.detector.detect(frame_bgr, max_faces=3) on these
\* sessions.
EdgeScenes ==
  { <<>>, <<FaceA>>, <<FaceEdge, FaceC>>, <<FaceIn, FaceC>>,
    <<FaceOut, FaceC>>, <<FaceA, FaceIn>>, <<Face59, FaceA>>,
    <<Face60>>, <<Face59>>, <<FaceHalf>>, <<FaceUnderHalf>>,
    <<FaceDouble>>, <<FaceOverDouble>> }

\* Distances of an embedding to (Al, Bo): a match of Al, and no match.
EdgeDistVecs == { <<10, 55>>, <<55, 55>> }

\* process_frame on a frame of these sessions; a tracker asked for an
\* update reports failure, so every frame runs the detector.
SceneFrame ==
  /\ frame_count < MaxSceneFrames
  /\ frame_count' = frame_count + 1
  /\ UNCHANGED <<config, recognized, ad_hist, mdvars, twin, espvars, relayvars>>
  /\ \E m \in {Cur} :
       \E detected_faces \in EdgeScenes :
         \E dvecs \in [1..Len(Selected(m, detected_faces)) -> EdgeDistVecs] :
           /\ Assign(Frame(m, frame_count + 1, frame_count + 1, NoUpdate,
                           detected_faces, dvecs, TRUE))
           /\ last_scene' = Some([detected_faces |-> detected_faces,
                                  state |-> m.state,
                                  locked_bbox |-> m.locked_bbox])

SceneNext ==
  \/ SelectTarget(al)
  \/ SceneFrame

SpecScenes == BaseSession /\ [][SceneNext]_vars

(* ===================================================================== *)
(* Properties of the lock state machine                                  *)
(* ===================================================================== *)

IsFrame == call.op = "process_frame"

\* The frame ran the slow path and left target_face unset.
NotFoundFrame == IsFrame /\ call.detector_called /\ result.recognition_distance = None

\* The all_faces entry the frame took as target_face (the last one whose
\* identity is the target identity), on a frame that found one.
TargetEntry ==
  LET hits == {i \in 1..Len(result.all_faces) :
                 result.all_faces[i].identity = locked_identity}
  IN result.all_faces[CHOOSE i \in hits : \A j \in hits : j <= i]

\* The frame recognized the target on the slow path.
FoundFrame ==
  /\ IsFrame /\ call.detector_called
  /\ \E i \in 1..Len(result.all_faces) :
       result.all_faces[i].identity = locked_identity

\* The ROI _init_tracker hands to the tracker for a box.
RoiOf(bbox) == <<bbox[1], bbox[2], bbox[3] - bbox[1], bbox[4] - bbox[2]>>

(* C1: grace period exhaustion. With a target selected, after a slow-path *)
(* frame that began in `lost` and did not find the target, the mode is    *)
(* `lost` as long as the loss counter does not exceed the lock-loss       *)
(* timeout and is `searching` once it does.                               *)
C1_GracePeriodExhaustion ==
  (NotFoundFrame /\ call.pre_state = LOST /\ locked_identity # None) =>
     IF frames_since_detection > lock_timeout_frames
     THEN state = SEARCHING
     ELSE state = LOST

(* C2, as claimed: a frame turns `lost` into `locked` only when the slow  *)
(* path recognized the target on it with confidence >= min-lock-confidence.*)
C2_OnlyByReverification ==
  (IsFrame /\ call.pre_state = LOST /\ state = LOCKED) =>
     (FoundFrame /\ TargetEntry.confidence >= min_lock_confidence)

(* C2, amended: a frame turns `lost` into `locked` only when the slow     *)
(* path recognized the target on it with confidence >= min-lock-confidence,*)
(* or when it took the fast path and the tracker update succeeded.        *)
C2_ReverificationOrTracker ==
  (IsFrame /\ call.pre_state = LOST /\ state = LOCKED) =>
     \/ FoundFrame /\ TargetEntry.confidence >= min_lock_confidence
     \/ /\ call.fast_path /\ ~call.detector_called
        /\ call.tracker_update.ok /\ ~call.tracker_update.raises
        /\ locked_bbox[3] - locked_bbox[1] >= 10
        /\ locked_bbox[4] - locked_bbox[2] >= 10

\* A frame re-verified a lost lock.
C2_Witness ==
  /\ IsFrame /\ call.pre_state = LOST /\ state = LOCKED
  /\ FoundFrame /\ TargetEntry.confidence >= min_lock_confidence

(* C3: after a successful select_target call the mode is `searching`.    *)
C3_SelectResetsToSearching ==
  (call.op = "select_target" /\ call.ret = "True") => state = SEARCHING

(* C4: after release_lock, called in whatever state of a session with a   *)
(* target selected, the mode is `searching` and the box, the landmarks,   *)
(* the lock-acquired timestamp and the tracker are cleared.               *)
C4_ReleaseClearsAll ==
  (call.op = "release_lock" /\ locked_identity # None) =>
     /\ state = SEARCHING
     /\ locked_bbox = None
     /\ locked_kps = None
     /\ lock_acquired_time = None
     /\ tracker = None
     /\ ~tracker_ok

(* C5: lock acquisition. After a frame that began in `searching` and      *)
(* whose selected candidate was matched to the target identity (distance  *)
(* <= threshold): if the confidence 1 - distance is >= min-lock-confidence *)
(* the mode is `locked`, the box, landmarks and confidence stored are the *)
(* candidate's, the timestamp is the frame's and the tracker was          *)
(* initialized from the box; if it is below, the mode is still            *)
(* `searching`.                                                           *)
C5_LockAcquisition ==
  (/\ IsFrame /\ call.pre_state = SEARCHING
   /\ Len(result.all_faces) = 1
   /\ result.all_faces[1].identity # None
   /\ result.all_faces[1].identity = locked_identity
   /\ result.all_faces[1].distance <= distance_threshold) =>
     LET c == result.all_faces[1]
     IN IF 100 - c.distance >= min_lock_confidence
        THEN /\ state = LOCKED
             /\ locked_bbox = c.bbox
             /\ locked_kps = c.kps
             /\ lock_confidence = 100 - c.distance
             /\ lock_acquired_time = Some(frame_count)
             /\ tracker = Some(RoiOf(c.bbox))
        ELSE state = SEARCHING

\* The scenario: distance 0.1, threshold 0.54, min-lock-confidence 0.65.
C5_Witness ==
  /\ IsFrame /\ call.pre_state = SEARCHING /\ state = LOCKED
  /\ distance_threshold = 54 /\ min_lock_confidence = 65
  /\ Len(result.all_faces) = 1
  /\ result.all_faces[1].identity = locked_identity
  /\ result.all_faces[1].distance = 10
  /\ lock_confidence = 90

(* C6: select_target with a name that matches no database entry up to    *)
(* case returns false and leaves the Lock State, the tracker and the      *)
(* history logger as they were, nothing being logged; with a name that    *)
(* matches it returns true and the target identity becomes a name of the  *)
(* database equal to the given name up to case.                           *)
C6_SelectTarget ==
  [][call'.op = "select_target" =>
       IF \A i \in 1..Len(db_names) : Lower(db_names[i]) # Lower(call'.face_name)
       THEN /\ call'.ret = "False"
            /\ call'.status = ""
            /\ UNCHANGED <<lockstate, tracker, tracker_ok, history_logger>>
       ELSE /\ call'.ret = "True"
            /\ \E i \in 1..Len(db_names) :
                 /\ locked_identity' = db_names[i]
                 /\ Lower(db_names[i]) = Lower(call'.face_name)]_vars

\* A name was selected in another spelling than the database's.
C6_Witness ==
  /\ call.op = "select_target" /\ call.ret = "True"
  /\ call.face_name # locked_identity
  /\ Lower(call.face_name) = Lower(locked_identity)

(* C7: a step that begins in `locked` or `lost` and ends in `lost` leaves *)
(* the stored box and landmarks as they were: they keep the values of the *)
(* transition to `lost` for as long as the mode stays `lost`.             *)
C7_LostKeepsBoxAndLandmarks ==
  [][(state \in {LOCKED, LOST} /\ state' = LOST) =>
       (locked_bbox' = locked_bbox /\ locked_kps' = locked_kps)]_vars

\* A frame began and ended in `lost`, a box being stored.
C7_Witness ==
  /\ IsFrame /\ call.pre_state = LOST /\ state = LOST
  /\ locked_bbox # None /\ locked_kps # None

(* C8: timeout boundary. With a target selected and lock-loss timeout N,  *)
(* after each of the first N consecutive not-found frames that began in   *)
(* `locked` the mode is `locked`, and after the (N+1)-th the mode is      *)
(* `searching` and the tracker is invalid.                                *)
C8_TimeoutBoundary ==
  (IsFrame /\ locked_identity # None) =>
     /\ (call.notfound_run >= 1 /\ call.notfound_run <= lock_timeout_frames)
          => state = LOCKED
     /\ call.notfound_run = lock_timeout_frames + 1
          => (state = SEARCHING /\ ~tracker_ok)

\* The tracker update of the step's frame fails: failure flag, exception,
\* or a clipped box narrower or shorter than 10 px.
UpdateFails(t) ==
  \/ t.raises
  \/ ~t.ok
  \/ Min(FrameShape[2], t.roi[1] + t.roi[3]) - Max(0, t.roi[1]) < 10
  \/ Min(FrameShape[1], t.roi[2] + t.roi[4]) - Max(0, t.roi[2]) < 10

(* C9, as claimed: a frame that begins in `locked` invokes the Detector   *)
(* iff the running frame counter is a multiple of the recognition         *)
(* interval; a frame that begins in `searching` invokes the Detector.     *)
C9_DetectorOnlyEveryKth ==
  [][call'.op = "process_frame" =>
       /\ state = LOCKED =>
            (call'.detector_called <=> frame_count' % recognition_interval = 0)
       /\ state = SEARCHING => call'.detector_called]_vars

(* C9, amended: a frame that begins in `locked` invokes the Detector iff  *)
(* the running frame counter is a multiple of the recognition interval,   *)
(* or the tracker is not valid, or the tracker update fails; a frame that *)
(* begins in `searching` invokes the Detector.                            *)
C9_FastSlowSwitch ==
  [][call'.op = "process_frame" =>
       /\ state = LOCKED =>
            (call'.detector_called <=>
               \/ frame_count' % recognition_interval = 0
               \/ ~tracker_ok
               \/ call'.fast_path /\ UpdateFails(call'.tracker_update))
       /\ state = SEARCHING => call'.detector_called]_vars

\* A locked frame with a valid tracker ran the Detector because its number
\* is a multiple of the recognition interval.
C9_Witness ==
  /\ IsFrame /\ call.pre_state = LOCKED
  /\ recognition_interval > 1
  /\ frame_count % recognition_interval = 0
  /\ ~call.fast_path /\ call.detector_called
  /\ tracker_ok /\ state = LOST

(* C10: tracker failure is recovered inside the frame. A frame that takes *)
(* the fast path and whose tracker update fails runs the Detector, returns*)
(* a result record, and leaves the tracker invalid unless it recognized   *)
(* the target; while the tracker is invalid no frame asks it for an       *)
(* update, and it becomes valid again only on a frame that recognized the *)
(* target and initialized it from the recognized box.                     *)
C10_TrackerFailureRecovered ==
  [][/\ (call'.op = "process_frame" /\ call'.fast_path
           /\ UpdateFails(call'.tracker_update)) =>
          /\ call'.detector_called
          /\ call'.ret = "result"
          /\ tracker_ok' => result'.recognition_distance # None
     /\ (call'.op = "process_frame" /\ ~tracker_ok) => ~call'.fast_path
     /\ (~tracker_ok /\ tracker_ok') =>
          /\ call'.op = "process_frame"
          /\ result'.recognition_distance # None
          /\ \E i \in 1..Len(result'.all_faces) :
               /\ result'.all_faces[i].identity = locked_identity'
               /\ locked_bbox' = result'.all_faces[i].bbox
          /\ tracker' = Some(RoiOf(locked_bbox'))]_vars

\* A fast-path frame whose tracker update failed ran the Detector.
C10_Witness ==
  /\ IsFrame /\ call.fast_path /\ UpdateFails(call.tracker_update)
  /\ call.detector_called /\ ~tracker_ok

(* ===================================================================== *)
(* Properties of recognition, the detectors and replay                   *)
(* ===================================================================== *)

HighRatio(h) == Len(h.kps) = 5 /\ EyesOpen(h.kps)
LowRatio(h) == Len(h.kps) = 5 /\ ~EyesOpen(h.kps)

\* The blink actions among the actions of entry h.
Blinks(h) == SelectSeq(h.actions, LAMBDA a : a.action_type = "blink")

(* C13: blink scenario. Three consecutive calls of detect, the first made *)
(* in blink state `open`, with a ratio at or below 0.6 on the first two   *)
(* and above 0.6 on the third: the third call emits exactly one blink     *)
(* action, of confidence 0.85, and the first two emit none.               *)
C13_BlinkScenario ==
  \A i \in 1..(Len(ad_hist) - 2) :
     (/\ ad_hist[i].pre.blink_state = "open"
      /\ LowRatio(ad_hist[i]) /\ LowRatio(ad_hist[i + 1])
      /\ HighRatio(ad_hist[i + 2]) /\ ~ad_hist[i + 2].raised) =>
        /\ Blinks(ad_hist[i]) = <<>>
        /\ Blinks(ad_hist[i + 1]) = <<>>
        /\ Blinks(ad_hist[i + 2]) = <<Action("blink", 85)>>

(* C14: a call of detect with a landmark set that does not have exactly 5 *)
(* points returns an empty action list without raising and leaves the     *)
(* detector's history (previous landmarks, blink state) unchanged.        *)
C14_MalformedLandmarksRejected ==
  (ad_hist # <<>> /\ Len(ad_hist[Len(ad_hist)].kps) # 5) =>
     LET h == ad_hist[Len(ad_hist)]
     IN /\ ~h.raised
        /\ h.actions = <<>>
        /\ Detector = h.pre

\* The action types of a list of actions.
Kinds(actions) == [i \in DOMAIN actions |-> actions[i].action_type]

(* C15: the first action detection after a lock is acquired compares      *)
(* against no previous landmarks: before it the detector has no previous  *)
(* landmarks and its blink state is `open`, and the frame emits no smile, *)
(* head-movement or scale action. (The detector is only ever called while *)
(* a lock is held, so it has a history at that point only from an earlier *)
(* lock that ended.)                                                      *)
C15_NoCarryOverBetweenLocks ==
  [][(call'.op = "process_frame" /\ call'.ad_calls = 1
        /\ call'.lock_detects = 1) =>
       /\ ad_prev_kps = None
       /\ ad_blink_state = "open"
       /\ \A i \in 1..Len(result'.actions) :
            result'.actions[i].action_type = "blink"]_vars

(* C16: replay determinism. The two sessions of a replay are in the same  *)
(* mode, with the same loss counter and the same tracker validity, after  *)
(* every call, and their last frames emitted the same action kinds.       *)
C16_ReplayDeterminism ==
  twin # None =>
     /\ twin[1].sys.state = state
     /\ twin[1].sys.frames_since_detection = frames_since_detection
     /\ twin[1].sys.tracker_ok = tracker_ok
     /\ Kinds(twin[1].sys.result.actions) = Kinds(result.actions)

\* The sessions hold a lock acquired at different wall-clock times, have
\* been locked for different times, and emitted an action on the frame.
C16_Witness ==
  /\ twin # None /\ IsFrame /\ state = LOCKED
  /\ twin[1].sys.lock_acquired_time # lock_acquired_time
  /\ twin[1].sys.result.time_locked_seconds # result.time_locked_seconds
  /\ result.actions # <<>>

(* C17: after a slow-path frame that reached recognition, all_faces has  *)
(* one entry per selected candidate, in selection order, with that        *)
(* candidate's box and the identity and confidence recognition gave it,   *)
(* whether or not it is the target; when no entry has the target identity *)
(* the target counts as not found. After a fast-path frame or a frame     *)
(* with no valid candidate all_faces is empty.                            *)
C17_AllFaces ==
  IsFrame =>
     IF call.detector_called /\ call.faces # <<>>
     THEN /\ Len(result.all_faces) = Len(call.faces)
          /\ \A i \in 1..Len(call.faces) :
               /\ result.all_faces[i].bbox =
                    <<call.faces[i].x1, call.faces[i].y1,
                      call.faces[i].x2, call.faces[i].y2>>
               /\ result.all_faces[i].identity = RecognizeFace(call.dvecs[i]).identity
               /\ result.all_faces[i].confidence = RecognizeFace(call.dvecs[i]).confidence
          /\ (\A i \in 1..Len(result.all_faces) :
                result.all_faces[i].identity # locked_identity)
               => result.recognition_distance = None
     ELSE result.all_faces = <<>>

\* Two candidates were selected; the first was recognized as another
\* identity than the target, the second as nobody, and the lock was lost.
C17_Witness ==
  /\ IsFrame /\ call.detector_called /\ Len(call.faces) = 2
  /\ locked_identity # None
  /\ result.all_faces[1].identity \notin {None, locked_identity}
  /\ result.all_faces[2].identity = None
  /\ result.recognition_distance = None
  /\ call.pre_state = LOCKED /\ state = LOST

(* C18: the result record of a frame describes the Lock State as it is    *)
(* when the call returns: with a target selected, its mode is the mode,   *)
(* its box is the stored box (none in `searching`) and its lock           *)
(* confidence is the stored lock confidence.                              *)
C18_ResultDescribesLockState ==
  (IsFrame /\ locked_identity # None) =>
     /\ result.state = state
     /\ result.face_box = locked_bbox
     /\ state = SEARCHING => result.face_box = None
     /\ result.lock_confidence = lock_confidence

(* C19: for every frame result whose state is `lost` or `searching`, or  *)
(* whose face box is none, the movement status computed is NO_FACE with   *)
(* confidence 0; MOVE_LEFT, MOVE_RIGHT and CENTERED are computed only for *)
(* a `locked` result.                                                     *)
C19_NoFaceUnlessLocked ==
  md_call # None =>
     LET c == md_call[1]
     IN /\ (c.frame_result.state \in {LOST, SEARCHING}
              \/ c.frame_result.face_box = None)
             => (c.movement = NO_FACE /\ c.confidence = 0)
        /\ c.movement \in {MOVE_LEFT, MOVE_RIGHT, CENTERED}
             => c.frame_result.state = LOCKED

(* C20: anti-flooding. compute returns a payload iff the status computed  *)
(* differs from the status of the last returned payload or at least       *)
(* MIN_PUBLISH_INTERVAL has passed since the last returned payload; when  *)
(* it returns none the remembered status and publish time are unchanged;  *)
(* a returned payload carries the computed status and becomes the         *)
(* remembered one; a payload with the status of the payload before it     *)
(* comes at least MIN_PUBLISH_INTERVAL after it.                          *)
C20_AntiFlooding ==
  md_call # None =>
     LET c == md_call[1]
         since == md_now - c.pre.last_publish_time
     IN /\ c.ret # None <=>
             (Some(c.movement) # c.pre.prev_state \/ since >= MIN_PUBLISH_INTERVAL)
        /\ c.ret = None => MDetector = c.pre
        /\ c.ret # None =>
             /\ c.ret[1].status = c.movement
             /\ MDetector = [prev_state |-> Some(c.movement),
                             last_publish_time |-> md_now]
             /\ Some(c.ret[1].status) = c.pre.prev_state
                  => since >= MIN_PUBLISH_INTERVAL

\* The status of the last payload was published again exactly
\* MIN_PUBLISH_INTERVAL after it.
C20_Witness ==
  /\ md_call # None
  /\ md_call[1].ret # None
  /\ Some(md_call[1].ret[1].status) = md_call[1].pre.prev_state
  /\ md_now - md_call[1].pre.last_publish_time = MIN_PUBLISH_INTERVAL

(* ===================================================================== *)
(* Properties of the servo controller and of the slow path               *)
(* ===================================================================== *)

\* The status a handled message carries, "" when it carries none.
EspStatusOf(msg) ==
  IF msg.json = "object" /\ msg.status # None THEN msg.status[1] ELSE ""

\* C21: the servo angle always lies in [0, 180]; and after a message is
\* handled, MOVE_LEFT has lowered the angle by SERVO_STEP and MOVE_RIGHT
\* raised it by SERVO_STEP, both clamped at the limits, CENTERED has set
\* it to 90, and NO_FACE, an unknown status or an unreadable message has
\* left it as it was.
C21_ServoAngleInRange ==
  /\ SERVO_MIN_ANGLE = 0 /\ SERVO_MAX_ANGLE = 180
  /\ servo_angle \in SERVO_MIN_ANGLE..SERVO_MAX_ANGLE
  /\ esp_call # None =>
       LET pre == esp_call[1].pre_angle
           status == EspStatusOf(esp_call[1].msg)
       IN CASE status = MOVE_LEFT ->
                 servo_angle = Max(SERVO_MIN_ANGLE, pre - SERVO_STEP)
            [] status = MOVE_RIGHT ->
                 servo_angle = Min(SERVO_MAX_ANGLE, pre + SERVO_STEP)
            [] status = CENTERED -> servo_angle = 90
            [] OTHER -> servo_angle = pre

\* MOVE_LEFT handled with the servo already at the lower limit.
C21_Witness ==
  /\ esp_call # None
  /\ EspStatusOf(esp_call[1].msg) = MOVE_LEFT
  /\ esp_call[1].pre_angle = SERVO_MIN_ANGLE
  /\ servo_angle = SERVO_MIN_ANGLE

\* The system after the next frame of the session, when that frame takes
\* the slow path (a frame on which the tracker is asked first has its
\* update fail): the detector returns detected_faces and the embedder the
\* distances dvecs.
SlowFrame(detected_faces, dvecs) ==
  Frame(Cur, frame_count + 1, frame_count + 1, NoUpdate, detected_faces,
        dvecs, TRUE)

C23_AllNoiseLikeNoCandidates ==
  \A detected_faces \in Scenes :
    (/\ locked_identity # None
     /\ detected_faces # <<>> /\ ValidFaces(detected_faces) = <<>>) =>
       LET noise == SlowFrame(detected_faces, <<>>)
           none == SlowFrame(<<>>, <<>>)
       IN /\ noise.state = none.state
          /\ noise.frames_since_detection = none.frames_since_detection
          /\ noise.locked_bbox = none.locked_bbox
          /\ noise.locked_kps = none.locked_kps
          /\ noise.tracker_ok = none.tracker_ok

\* C24: from `locked`, with a target selected, a slow-path frame that has
\* valid candidates of which none is recognized as the target leaves the
\* loss counter one above its value before the frame; the mode becomes
\* `searching`, the tracker invalid and box and landmarks cleared, when
\* the counter then exceeds the timeout, and `lost` otherwise.
C24_LockedTargetNotFound ==
  (state = LOCKED /\ locked_identity # None) =>
     \A detected_faces \in Scenes :
       \A dvecs \in [1..Len(Selected(Cur, detected_faces)) -> DistVecs] :
         LET faces == Selected(Cur, detected_faces)
             r == SlowFrame(detected_faces, dvecs)
         IN (faces # <<>> /\ TargetFace(Cur, FaceInfos(faces, dvecs)) = None) =>
              /\ r.frames_since_detection = frames_since_detection + 1
              /\ IF r.frames_since_detection > lock_timeout_frames
                 THEN /\ r.state = SEARCHING /\ ~r.tracker_ok
                      /\ r.locked_bbox = None /\ r.locked_kps = None
                 ELSE r.state = LOST

\* C25: a frame that takes the fast path and gets a box from the tracker
\* ends in `locked` with the loss counter 0 and the tracker's box stored;
\* it leaves the stored landmarks, the lock confidence, the target
\* identity and the lock-acquired timestamp as they were; it runs neither
\* the detector nor the embedder, and it calls the action detector
\* exactly once, on the cached landmarks.
C25_FastPathFrame ==
  [][(call'.op = "process_frame" /\ call'.fast_path /\ ~call'.detector_called) =>
       /\ state' = LOCKED
       /\ frames_since_detection' = 0
       /\ locked_bbox' = ClippedBox(call'.tracker_update)
       /\ locked_bbox' # None
       /\ UNCHANGED <<locked_kps, lock_confidence, locked_identity,
                      lock_acquired_time>>
       /\ call'.faces = <<>> /\ result'.all_faces = <<>>
       /\ call'.ad_calls = 1
       /\ cached_kps # None /\ ad_prev_kps' = cached_kps]_vars

\* A fast-path frame brought a lost lock back to `locked`.
C25_Witness ==
  /\ IsFrame /\ call.fast_path /\ ~call.detector_called
  /\ call.pre_state = LOST /\ state = LOCKED
  /\ call.ad_calls = 1 /\ frames_since_detection = 0

\* C26: a slow-path frame that begins in `locked` and recognizes a
\* selected candidate as the target, at whatever confidence, ends in
\* `locked` with that candidate's box, landmarks and confidence stored
\* and with the tracker built anew on that box, and calls the action
\* detector exactly once, on the new landmarks.
C26_LockedRefresh ==
  (FoundFrame /\ call.pre_state = LOCKED) =>
     /\ state = LOCKED
     /\ locked_bbox = TargetEntry.bbox
     /\ locked_kps = TargetEntry.kps
     /\ lock_confidence = TargetEntry.confidence
     /\ tracker = Some(RoiOf(TargetEntry.bbox))
     /\ call.ad_calls = 1
     /\ ad_prev_kps = TargetEntry.kps

\* A locked target, tracked on one box, was recognized again on another
\* box with a confidence below min-lock-confidence.
C26_Witness ==
  /\ FoundFrame /\ call.pre_state = LOCKED /\ locked_identity # None
  /\ call.fast_path /\ call.tracker_failed
  /\ TargetEntry.confidence < min_lock_confidence
  /\ tracker = Some(RoiOf(BBox(FaceB)))

\* The detector output of the frame just processed.
SceneOf == last_scene[1].detected_faces

\* The set of elements of a sequence.
Range(seq) == {seq[i] : i \in 1..Len(seq)}

\* C27: on a frame that begins in `locked` with a stored box and has
\* valid candidates, the candidates recognized are exactly the valid
\* ones whose box centre lies within 0.75 x the stored box height of the
\* stored box centre, a centre at exactly that distance included; when
\* there is none, the one candidate recognized is the largest valid one
\* by area.
C27_NearCandidates ==
  (/\ IsFrame /\ last_scene # None
   /\ last_scene[1].state = LOCKED /\ last_scene[1].locked_bbox # None
   /\ ValidFaces(SceneOf) # <<>>) =>
     LET valid == ValidFaces(SceneOf)
         b == last_scene[1].locked_bbox
         h == b[4] - b[2]
         Within(f) ==
           LET dx == (f.x1 + f.x2) - (b[1] + b[3])
               dy == (f.y1 + f.y2) - (b[2] + b[4])
           IN 4 * (dx * dx + dy * dy) <= 9 * h * h
         near == SelectSeq(valid, Within)
     IN IF near # <<>>
        THEN call.faces = near
        ELSE /\ Len(call.faces) = 1
             /\ call.faces[1] \in Range(valid)
             /\ \A g \in Range(valid) : Area(g) <= Area(call.faces[1])

\* C28: a slow-path frame that begins in `searching` or in `lost`
\* recognizes at most one candidate, so all_faces has at most one entry;
\* when the frame has valid candidates the one recognized is the largest
\* valid candidate by area, whichever candidate is the target.
C28_LargestOnly ==
  (/\ IsFrame /\ last_scene # None
   /\ last_scene[1].state \in {SEARCHING, LOST}) =>
     LET valid == ValidFaces(SceneOf)
     IN /\ Len(call.faces) <= 1
        /\ Len(result.all_faces) = Len(call.faces)
        /\ valid # <<>> =>
             /\ Len(call.faces) = 1
             /\ call.faces[1] \in Range(valid)
             /\ \A g \in Range(valid) : Area(g) <= Area(call.faces[1])
             /\ result.all_faces[1].bbox = BBox(call.faces[1])

\* A frame in `lost` had two valid candidates, the smaller one next to
\* the stored box, and recognized the larger one only.
C28_Witness ==
  /\ IsFrame /\ last_scene # None /\ last_scene[1].state = LOST
  /\ SceneOf = <<FaceIn, FaceC>>
  /\ last_scene[1].locked_bbox = BBox(FaceA)
  /\ call.faces = <<FaceC>> /\ Len(result.all_faces) = 1

\* The test of the noise filter as the claim states it: positive width
\* and height, area >= min_face_size^2, width / height in [0.5, 2.0].
Passes(f) ==
  LET w == f.x2 - f.x1
      h == f.y2 - f.y1
  IN /\ w > 0 /\ h > 0
     /\ w * h >= min_face_size * min_face_size
     /\ 2 * w >= h /\ w <= 2 * h

C30_TieBreak ==
  (recognized # None /\ db_names # <<>>) =>
     LET dists == recognized[1].dists
         ret == recognized[1].ret
         first == CHOOSE i \in 1..Len(db_names) :
                    /\ \A j \in 1..Len(db_names) : dists[i] <= dists[j]
                    /\ \A j \in 1..(i - 1) : dists[j] > dists[i]
     IN /\ ret.distance = dists[first]
        /\ ret.identity = IF dists[first] <= distance_threshold
                          THEN db_names[first]
                          ELSE None

\* Both entries of the database are at the same accepted distance.
C30_Witness ==
  /\ recognized # None /\ Len(db_names) = 2
  /\ recognized[1].dists[1] = recognized[1].dists[2]
  /\ recognized[1].dists[1] <= distance_threshold
  /\ recognized[1].ret.identity = db_names[1]

(* -------------------------------------------------------------------- *)
(* Properties of the action detector's machines, of the shape of the    *)
(* lock state, and of the message handlers                              *)
(* -------------------------------------------------------------------- *)

\* The detector after n more frames with an eye opening ratio above 0.6.
RECURSIVE OpenRun(_, _)
OpenRun(ad, n) ==
  IF n = 0 THEN ad ELSE OpenRun(DetectBlink(ad, TRUE).ad, n - 1)

(* C31: the blink machine has no absorbing state. From every reachable   *)
(* state of the detector a run of frames with an eye opening ratio above *)
(* 0.6 brings the blink state back to `open` (a run longer than the      *)
(* number of states of the machine visits no new state).                 *)
C31_NoAbsorbingBlinkState ==
  \E n \in 0..(blink_threshold_frames + 2) :
     OpenRun(Detector, n).blink_state = "open"

\* The calls of ad_hist that stepped the blink machine, in order: detect
\* returns before it for no landmarks and raises before it for fewer than
\* five points.
BlinkSteps ==
  SelectSeq(ad_hist, LAMBDA h : h.kps # None /\ Len(h.kps) >= 5)

\* The blink state after step i of BlinkSteps: the other calls leave it.
BlinkStateAfter(i) ==
  IF i < Len(BlinkSteps) THEN BlinkSteps[i + 1].pre.blink_state
  ELSE ad_blink_state

(* C32: `closed` is entered only after two consecutive low-ratio frames. *)
(* On every frame where the blink state becomes `closed`, that frame and *)
(* the frame before it had an eye opening ratio at or below 0.6; and a   *)
(* low-ratio frame from `open` followed by a frame above 0.6 does not    *)
(* reach `closed` and emits no blink, on either frame.                   *)
C32_ClosedNeedsTwoLowFrames ==
  \A i \in 1..Len(BlinkSteps) :
     /\ (BlinkSteps[i].pre.blink_state # "closed"
           /\ BlinkStateAfter(i) = "closed") =>
          /\ i >= 2
          /\ ~EyesOpen(BlinkSteps[i].kps)
          /\ ~EyesOpen(BlinkSteps[i - 1].kps)
     /\ (i >= 2 /\ BlinkSteps[i - 1].pre.blink_state = "open"
           /\ ~EyesOpen(BlinkSteps[i - 1].kps)
           /\ EyesOpen(BlinkSteps[i].kps)) =>
          /\ BlinkStateAfter(i - 1) # "closed"
          /\ BlinkStateAfter(i) # "closed"
          /\ Blinks(BlinkSteps[i - 1]) = <<>>
          /\ Blinks(BlinkSteps[i]) = <<>>

\* The last call stepped the blink machine from `closing` to `closed`.
C32_Witness ==
  /\ Len(BlinkSteps) >= 2
  /\ ad_hist[Len(ad_hist)] = BlinkSteps[Len(BlinkSteps)]
  /\ BlinkSteps[Len(BlinkSteps)].pre.blink_state = "closing"
  /\ ad_blink_state = "closed"

\* The actions of entry h of ad_hist whose type is in `types`.
ActionsOf(h, types) ==
  SelectSeq(h.actions, LAMBDA a : a.action_type \in types)

\* The detector had a previous frame when the call of entry h was made.
HasPrevious(h) == h.kps # None /\ Len(h.kps) = 5 /\ h.pre.prev_kps # None

(* C33: smile. On a frame with a previous frame whose mouth span was     *)
(* positive, detect emits a smile action iff the current span is more    *)
(* than 1.08 times the previous one; the confidence is the excess ratio  *)
(* over 0.15, at most 0.9. No smile is emitted on the first frame or     *)
(* when the previous span is 0.                                          *)
C33_Smile ==
  \A i \in 1..Len(ad_hist) :
     LET h == ad_hist[i]
         smiles == ActionsOf(h, {"smile"})
     IN (h.kps # None /\ Len(h.kps) = 5) =>
          IF HasPrevious(h) /\ MouthHeight(h.pre.prev_kps) > 0
          THEN LET cur == MouthHeight(h.kps)
                   prev == MouthHeight(h.pre.prev_kps)
               IN IF 100 * cur > 108 * prev
                  THEN /\ Len(smiles) = 1
                       /\ smiles[1].confidence =
                            Min(90, ((cur - prev) * 10000) \div (15 * prev))
                  ELSE smiles = <<>>
          ELSE smiles = <<>>

(* C34: head movement. On a frame with a previous frame, detect emits    *)
(* exactly one movement action iff the nose x differs from the previous  *)
(* one by more than 8 px: move_right when it increased, move_left when   *)
(* it decreased, with confidence min(0.95, |dx| / 20); a displacement of *)
(* exactly 8 px, and a first frame, emit none.                           *)
C34_HeadMovement ==
  \A i \in 1..Len(ad_hist) :
     LET h == ad_hist[i]
         moves == ActionsOf(h, {"move_left", "move_right"})
     IN (h.kps # None /\ Len(h.kps) = 5) =>
          IF HasPrevious(h)
          THEN LET dx == h.kps[3][1] - h.pre.prev_kps[3][1]
               IN IF Abs(dx) > 8
                  THEN /\ Len(moves) = 1
                       /\ moves[1].action_type =
                            (IF dx > 0 THEN "move_right" ELSE "move_left")
                       /\ moves[1].confidence = Min(95, 5 * Abs(dx))
                  ELSE moves = <<>>
          ELSE moves = <<>>

(* C35: scale change. On a frame with a previous frame whose inter-eye   *)
(* distance was positive, detect emits face_closer iff the distance is   *)
(* more than 1.12 times the previous one, face_farther iff it is less    *)
(* than 0.88 times, never both and nothing otherwise; the confidence is  *)
(* at most 0.85; and a current distance of 0 does not make detect raise. *)
C35_ScaleChange ==
  \A i \in 1..Len(ad_hist) :
     LET h == ad_hist[i]
         scales == ActionsOf(h, {"face_closer", "face_farther"})
     IN (HasPrevious(h) /\ EyeDistance2(h.pre.prev_kps) > 0) =>
          LET d2 == EyeDistance2(h.kps)
              p2 == EyeDistance2(h.pre.prev_kps)
          IN /\ d2 = 0 => ~h.raised
             /\ Len(scales) <= 1
             /\ \A j \in 1..Len(scales) : scales[j].confidence <= 85
             /\ ActionsOf(h, {"face_closer"}) # <<>>
                  <=> 10000 * d2 > 112 * 112 * p2
             /\ ActionsOf(h, {"face_farther"}) # <<>>
                  <=> 10000 * d2 < 88 * 88 * p2

\* The actions of the last frame other than blinks.
NonBlinkActions ==
  SelectSeq(result.actions, LAMBDA a : a.action_type # "blink")

\* The last call was a frame that took the fast path and got a box from
\* the tracker / a slow-path frame that began in `locked` and refreshed
\* the lock on the target it recognized.
FastFrame == IsFrame /\ call.fast_path /\ ~call.detector_called
LockedRefreshFrame ==
  IsFrame /\ call.detector_called /\ call.pre_state = LOCKED /\ call.ad_calls = 1

(* C36: a fast-path frame that directly follows a fast-path frame or a   *)
(* `locked` re-recognition frame emits no smile, head-movement or scale  *)
(* action, and leaves the previous-frame landmarks of the action         *)
(* detector as they were: only the blink machine can step.               *)
C36_OnlyBlinkBetweenRecognitions ==
  [][((FastFrame \/ LockedRefreshFrame) /\ FastFrame') =>
       /\ NonBlinkActions' = <<>>
       /\ ad_prev_kps' = ad_prev_kps
       /\ ad_prev_kps' = cached_kps']_vars

\* Frame 5 of a session with recognition interval 3 is a fast-path frame
\* whose action detection is the third since the lock was acquired: the
\* session locked on frame 1 or 2, frame 3 refreshed the lock, frame 4
\* took the fast path and frame 5 follows it.
C36_Witness ==
  /\ FastFrame /\ frame_count = 5 /\ recognition_interval = 3
  /\ call.lock_detects >= 3 /\ call.ad_calls = 1
  /\ NonBlinkActions = <<>>

(* C37: shape of the lock state after every sequence of select_target,   *)
(* process_frame and release_lock calls. The mode is `searching` iff the *)
(* stored box and the stored landmarks are both none, and in `searching` *)
(* the tracker is not valid.                                             *)
C37_StateShape ==
  /\ (state = SEARCHING) <=> (locked_bbox = None /\ locked_kps = None)
  /\ state = SEARCHING => ~tracker_ok

\* release_lock returned the session from `locked` to `searching`.
C37_Witness ==
  /\ call.op = "release_lock" /\ call.pre_state = LOCKED
  /\ state = SEARCHING /\ tracker = None
  /\ locked_bbox = None /\ locked_kps = None /\ ~tracker_ok

(* C38: no lock without a target. While no target identity has been      *)
(* selected, no frame moves the mode from `searching` to `locked`,       *)
(* whatever the distance threshold and the minimum lock confidence.      *)
C38_NoLockWithoutTarget ==
  ~(IsFrame /\ call.pre_state = SEARCHING /\ state = LOCKED
      /\ locked_identity = None)

\* A payload that is not JSON, or JSON that is not an object with a
\* status field.
Malformed(msg) == msg.json # "object" \/ msg.status = None

(* C39: on_message ignores every malformed payload. When the message     *)
(* loop hands on_message a payload that is not valid JSON, or valid JSON *)
(* that is not an object with a status field, the handler returns        *)
(* without raising, the servo angle is unchanged, and run() stays in its *)
(* message loop on the current connection.                               *)
C39_MalformedPayloadIgnored ==
  [][(esp_call' # esp_call /\ Malformed(esp_call'[1].msg)) =>
       /\ ~esp_call'[1].raised
       /\ servo_angle' = servo_angle
       /\ esp_pc' = "listening"]_vars

\* Message n has been broadcast: it arrived, was queued and has left the
\* queue of the event loop.
Broadcasted(n) ==
  /\ n <= Len(ws_log.present)
  /\ ws_mqtt # Some(n)
  /\ \A i \in 1..Len(ws_loop) : ws_loop[i] # n

(* C40: relay delivery under every interleaving of the MQTT thread and   *)
(* the event loop. Every MQTT message that has been broadcast was sent   *)
(* to every client that was connected when it arrived and still is; a    *)
(* client that connected after a message had arrived was first sent the  *)
(* most recent message; and no client is sent the same MQTT message      *)
(* twice.                                                                *)
C40_RelayDelivery ==
  \A c \in WsClients :
     /\ \A n \in 1..Len(ws_log.present) :
          (Broadcasted(n) /\ c \in ws_log.present[n] /\ c \in ws_clients) =>
             \E i \in 1..Len(ws_sent[c]) : ws_sent[c][i] = n
     /\ ws_log.seen[c] # None =>
          ws_sent[c] # <<>> /\ ws_sent[c][1] = ws_log.seen[c][1]
     /\ \A i, j \in 1..Len(ws_sent[c]) : i # j => ws_sent[c][i] # ws_sent[c][j]

====
